---- MODULE Spec2Model ----
(***************************************************************************)
(* A model of the tax-rag-agent backend: the ingestion pipeline            *)
(* (IngestionService + IngestionProcessor + WeaviateService) and the chat  *)
(* pipeline (ChatService.sendMessageAndStreamResponse).                    *)
(*                                                                         *)
(* Every `await` of the code is one step of the model; the result of an    *)
(* external call (vector store, fetch, embedder, generative model) is a    *)
(* nondeterministic choice between its possible results.                   *)
(***************************************************************************)
EXTENDS Integers, Sequences, FiniteSets, TLC

(***************************************************************************)
(* Bounds of the model.                                                    *)
(***************************************************************************)
MaxJobs == 1          \* submissions (calls of addUrlToQueue)
MaxDeliveries == 2    \* deliveries of work items to workers, redeliveries included
MaxChunks == 2        \* chunks the splitter returns for one document
MaxTextHundreds == 45 \* longest text given to the chunker, in hundreds of characters
MaxWords == 3         \* words of a text with separators given to the chunker

Workers == {1, 2}
JobIds == 1..MaxJobs

ChunkSize == 1000     \* chunkSize: 1000
ChunkOverlap == 200   \* chunkOverlap: 200

(***************************************************************************)
(* URLs are sequences of characters.                                       *)
(***************************************************************************)
PdfUrl == <<"e", "/", "a", ".", "p", "d", "f">>
QueryUrl == <<"e", "/", "a", ".", "p", "d", "f", "?">>
PageUrl == <<"e", "/", "a">>
Urls == {PdfUrl, QueryUrl, PageUrl}
NoUrl == <<>>

PdfSuffix == <<".", "p", "d", "f">>

\* Variant of EndsWith that looks for the suffix anywhere in the string.
Contains(s, suffix) ==
    \E i \in 1..Len(s) :
        /\ i + Len(suffix) - 1 <= Len(s)
        /\ SubSeq(s, i, i + Len(suffix) - 1) = suffix

\* String.prototype.endsWith
EndsWith(s, suffix) ==
    /\ Len(s) >= Len(suffix)
    /\ SubSeq(s, Len(s) - Len(suffix) + 1, Len(s)) = suffix

\* String.prototype.lastIndexOf, counting positions from 1 (0: not found).
LastIndexOf(s, c) ==
    IF \E i \in DOMAIN s : s[i] = c
    THEN CHOOSE i \in DOMAIN s : s[i] = c /\ \A k \in DOMAIN s : s[k] = c => k <= i
    ELSE 0

\* url.substring(url.lastIndexOf('/') + 1)
FileName(url) == SubSeq(url, LastIndexOf(url, "/") + 1, Len(url))

\* The title the article extractor found on a rendered page.
ArticleTitle == <<"t">>

(***************************************************************************)
(* Texts.  A text is null, or len whitespace characters ("blank"), or len  *)
(* characters without any separator ("solid"), or a sequence of words with *)
(* separators ("words"): toks[i].sep is the separator before word i ("",   *)
(* " ", "\n" or "\n\n") and toks[i].len the number of characters of the    *)
(* word, none of them whitespace (0: the separator stands alone).          *)
(***************************************************************************)
SepLen(sep) == IF sep = "" THEN 0 ELSE IF sep = "\n\n" THEN 2 ELSE 1

\* The position in the text at which the separator of word i begins.
RECURSIVE TokFrom(_, _)
TokFrom(toks, i) ==
    IF i = 1 THEN 0
    ELSE TokFrom(toks, i - 1) + SepLen(toks[i - 1].sep) + toks[i - 1].len

\* Word i is the characters [WordFrom, WordTo) of the text.
WordFrom(toks, i) == TokFrom(toks, i) + SepLen(toks[i].sep)
WordTo(toks, i) == WordFrom(toks, i) + toks[i].len

NullText == [kind |-> "null", len |-> 0]
BlankText(n) == [kind |-> "blank", len |-> n]
SolidText(n) == [kind |-> "solid", len |-> n]
WordsText(toks) ==
    [kind |-> "words", len |-> TokFrom(toks, Len(toks) + 1), toks |-> toks]

\* The words and separators of a text.
Toks(text) ==
    IF text.kind = "words" THEN text.toks
    ELSE IF text.kind = "solid" THEN <<[sep |-> "", len |-> text.len]>>
    ELSE IF text.kind = "blank" THEN [i \in 1..text.len |-> [sep |-> " ", len |-> 0]]
    ELSE <<>>

\* The number of characters of the text in [from, to) that are not whitespace.
NonWs(toks, from, to) ==
    LET In(i) == LET lo == IF WordFrom(toks, i) > from THEN WordFrom(toks, i) ELSE from
                     hi == IF WordTo(toks, i) < to THEN WordTo(toks, i) ELSE to
                 IN  IF hi > lo THEN hi - lo ELSE 0
        Sum[i \in 0..Len(toks)] == IF i = 0 THEN 0 ELSE In(i) + Sum[i - 1]
    IN  Sum[Len(toks)]

\* The number of characters of a text that are not whitespace.
StrippedLen(text) == NonWs(Toks(text), 0, text.len)

\* !text || text.trim() === ''
IsBlank(text) == text.kind = "null" \/ StrippedLen(text) = 0

\* Variant of MergeSplits that starts the next chunk where the last one ended.
RECURSIVE MergeSplitsNoOverlap(_, _)
MergeSplitsNoOverlap(from, n) ==
    IF n <= ChunkSize
    THEN <<[from |-> from, len |-> n]>>
    ELSE <<[from |-> from, len |-> ChunkSize]>>
             \o MergeSplitsNoOverlap(from + ChunkSize, n - ChunkSize)

(***************************************************************************)
(* RecursiveCharacterTextSplitter.splitText for n characters without a     *)
(* separator, the first at position from: the text is split into single    *)
(* characters, which are merged into a chunk until it holds ChunkSize      *)
(* characters; the next chunk starts with the last ChunkOverlap characters *)
(* of the chunk before.  A chunk is the window [from, from + len) of the   *)
(* text.                                                                   *)
(***************************************************************************)
RECURSIVE MergeSplits(_, _)
MergeSplits(from, n) ==
    IF n <= ChunkSize
    THEN <<[from |-> from, len |-> n]>>
    ELSE <<[from |-> from, len |-> ChunkSize]>>
             \o MergeSplits(from + ChunkSize - ChunkOverlap,
                            n - (ChunkSize - ChunkOverlap))

(***************************************************************************)
(* RecursiveCharacterTextSplitter.splitText for a text with separators.    *)
(* The splitter takes the first of its separators that occurs in the text, *)
(* cuts the text before every occurrence of it (keepSeparator), merges the *)
(* pieces shorter than chunkSize into chunks and splits every other piece  *)
(* with the separators that are left; with the last separator, "", the     *)
(* pieces are the single characters.  Every chunk is trimmed, and a chunk  *)
(* of whitespace only is dropped.  Pieces and chunks are windows           *)
(* [from, from + len) of the text.                                         *)
(***************************************************************************)
Separators == <<"\n\n", "\n", " ", "">>

\* The least and the greatest number of a non-empty set.
Least(S) == CHOOSE x \in S : \A y \in S : x <= y
Greatest(S) == CHOOSE x \in S : \A y \in S : x >= y

\* The positions of the text that hold a character of a separator.
SepPositions(toks) ==
    UNION {TokFrom(toks, i)..(WordFrom(toks, i) - 1) : i \in DOMAIN toks}

\* The character at a position of SepPositions.
SepCharAt(toks, p) ==
    LET i == CHOOSE i \in DOMAIN toks : TokFrom(toks, i) <= p /\ p < WordFrom(toks, i)
    IN  IF toks[i].sep = " " THEN " " ELSE "\n"

\* The positions in [from, to) at which an occurrence of sep begins that
\* ends in [from, to].
Matches(toks, from, to, sep) ==
    {p \in SepPositions(toks) :
        /\ from <= p /\ p + SepLen(sep) <= to
        /\ IF sep = "\n\n"
           THEN /\ SepCharAt(toks, p) = "\n"
                /\ p + 1 \in SepPositions(toks)
                /\ SepCharAt(toks, p + 1) = "\n"
           ELSE SepCharAt(toks, p) = sep}

\* splitOnSeparator: text.split(/(?=sep)/) without the empty strings, for
\* the text [from, to) and the positions where sep begins after from.
RECURSIVE Pieces(_, _, _)
Pieces(from, to, cuts) ==
    IF cuts = {}
    THEN <<[from |-> from, len |-> to - from]>>
    ELSE LET c == Least(cuts)
         IN  <<[from |-> from, len |-> c - from]>> \o Pieces(c, to, cuts \ {c})

\* joinDocs: docs.join('').trim(), null when nothing is left: no chunk, or the
\* window [from, to) without the whitespace at its ends.
JoinDocs(toks, from, to) ==
    LET words == {i \in DOMAIN toks : /\ toks[i].len > 0
                                      /\ WordTo(toks, i) > from
                                      /\ WordFrom(toks, i) < to}
        lo == Least({IF WordFrom(toks, i) > from THEN WordFrom(toks, i) ELSE from :
                        i \in words})
        hi == Greatest({IF WordTo(toks, i) < to THEN WordTo(toks, i) ELSE to :
                           i \in words})
    IN  IF words = {} THEN <<>> ELSE <<[from |-> lo, len |-> hi - lo]>>

\* The windows given, each joined into a chunk.
RECURSIVE JoinAll(_, _)
JoinAll(toks, windows) ==
    IF windows = <<>> THEN <<>>
    ELSE JoinDocs(toks, Head(windows).from, Head(windows).from + Head(windows).len)
             \o JoinAll(toks, Tail(windows))

\* The length of the consecutive pieces of currentDoc, and their chunk.
Total(cur) ==
    IF cur = <<>> THEN 0 ELSE cur[Len(cur)].from + cur[Len(cur)].len - cur[1].from
Joined(toks, cur) ==
    IF cur = <<>> THEN <<>> ELSE JoinDocs(toks, cur[1].from, cur[1].from + Total(cur))

\* mergeSplits, the while loop: pieces leave currentDoc from the front while
\* more than chunkOverlap characters are left, or the next piece (n
\* characters) does not fit.
RECURSIVE Shift(_, _)
Shift(cur, n) ==
    IF Total(cur) > ChunkOverlap \/ (Total(cur) + n > ChunkSize /\ Total(cur) > 0)
    THEN Shift(Tail(cur), n)
    ELSE cur

\* mergeSplits for the pieces splits, with cur as currentDoc: a piece that
\* does not fit ends the chunk, and the next chunk starts with the pieces the
\* while loop has left.
RECURSIVE MergePieces(_, _, _)
MergePieces(toks, splits, cur) ==
    IF splits = <<>> THEN Joined(toks, cur)
    ELSE LET d == Head(splits)
         IN  IF Total(cur) + d.len > ChunkSize /\ cur # <<>>
             THEN Joined(toks, cur)
                      \o MergePieces(toks, Tail(splits), Append(Shift(cur, d.len), d))
             ELSE MergePieces(toks, Tail(splits), Append(cur, d))

\* _splitText(text, separators) for the text [from, to), and its loop over
\* the pieces: good holds the pieces shorter than chunkSize that are not
\* merged yet, seps the separators after the one the pieces were cut with.
RECURSIVE SplitText(_, _, _, _), SplitPieces(_, _, _, _)
SplitText(toks, from, to, seps) ==
    LET i == Least({k \in DOMAIN seps :
                       seps[k] = "" \/ Matches(toks, from, to, seps[k]) # {}})
    IN  IF seps[i] = ""
        THEN JoinAll(toks, MergeSplits(from, to - from))
        ELSE SplitPieces(toks,
                         Pieces(from, to, Matches(toks, from, to, seps[i]) \ {from}),
                         <<>>, SubSeq(seps, i + 1, Len(seps)))

SplitPieces(toks, pieces, good, seps) ==
    IF pieces = <<>> THEN MergePieces(toks, good, <<>>)
    ELSE LET s == Head(pieces)
         IN  IF s.len < ChunkSize
             THEN SplitPieces(toks, Tail(pieces), Append(good, s), seps)
             ELSE MergePieces(toks, good, <<>>)
                      \o SplitText(toks, s.from, s.from + s.len, seps)
                      \o SplitPieces(toks, Tail(pieces), <<>>, seps)

\* Variant of ChunkText that returns the text as one chunk when the splitter
\* throws.
ChunkTextWholeOnFailure(text, splitterOk) ==
    IF IsBlank(text) THEN <<>>
    ELSE IF splitterOk THEN SplitText(Toks(text), 0, text.len, Separators)
    ELSE <<[from |-> 0, len |-> text.len]>>

\* Variant of ChunkText that gives the splitter the first chunkSize
\* characters of the text only.
ChunkTextFirstWindow(text, splitterOk) ==
    IF IsBlank(text) THEN <<>>
    ELSE IF splitterOk
         THEN SplitText(Toks(text), 0,
                        IF text.len > ChunkSize THEN ChunkSize ELSE text.len, Separators)
    ELSE <<>>

\* IngestionService.chunkText: [] for an empty or whitespace-only text and
\* when the splitter throws, else what the splitter returns.
ChunkText(text, splitterOk) ==
    IF IsBlank(text) THEN <<>>
    ELSE IF splitterOk THEN SplitText(Toks(text), 0, text.len, Separators)
    ELSE <<>>

\* The longest text without separators that is split into k chunks.
LongestOf(k) == ChunkSize + (k - 1) * (ChunkSize - ChunkOverlap)

\* What the extractors return in the ingestion runs: null, a whitespace-only
\* text, and a text for every number of chunks up to MaxChunks.
IngestTexts ==
    {NullText, BlankText(1)} \cup {SolidText(LongestOf(k)) : k \in 1..MaxChunks}

\* Texts of up to MaxTextHundreds * 100 characters.
AllTexts ==
    {NullText, BlankText(0), BlankText(1)}
        \cup {SolidText(100 * k) : k \in 1..MaxTextHundreds}

\* Texts of up to MaxWords words with separators: words shorter than the
\* overlap, of half a chunk and of a whole chunk, and separators alone; the
\* first word with or without a space before it.
WordLens == {0, ChunkOverlap - 50, ChunkSize \div 2, ChunkSize}

MixedTexts ==
    {WordsText(<<first>> \o rest) :
        first \in [sep : {"", " "}, len : WordLens],
        rest \in UNION {[1..n -> [sep : {" ", "\n", "\n\n"}, len : WordLens]] :
                           n \in 0..(MaxWords - 1)}}

(***************************************************************************)
(* Ingestion state.                                                        *)
(*   ingestJob  the IngestJob objects of the store, by id                  *)
(*   rawDoc     the RawDoc objects of the store                            *)
(*   docChunk   the DocChunk objects of the store                          *)
(*   queue      the work items waiting in the BullMQ queue                 *)
(*   delivered  how often each work item was handed to a worker            *)
(*   submitted  what addUrlToQueue returned for each submission            *)
(*   nextJob    the next job id uuidv4() gives addUrlToQueue               *)
(*   chunkWrites  the createObject('DocChunk') calls that are in flight    *)
(*   escaped    the calls of process() (job, delivery) that an exception   *)
(*              left                                                       *)
(*   calls      the calls of the extractors, the chunker and the embedder  *)
(*              made by each call of process(), with their results         *)
(*   wk         per worker: position in process() and its locals           *)
(***************************************************************************)
VARIABLES ingestJob, rawDoc, docChunk, queue, delivered, submitted,
          nextJob, chunkWrites, escaped, calls, wk

ingestVars == <<ingestJob, rawDoc, docChunk, queue, delivered,
                submitted, nextJob, chunkWrites, escaped, calls, wk>>

Terminal == {"completed", "failed"}

MsgNoContent == "No content could be cleaned or fetched."
MsgNoChunks == "No chunks were generated from the content."
MsgEmbed == "Failed to generate embeddings or embedding count mismatch."
ErrUpdate == "updateObject rejected"
ErrCreate == "createObject rejected"
ErrPage == "page.close rejected"
NoMessage == "null"

\* The value of rawDocId on a record that has none.
NoId == <<0, 0, 0>>

AbsentJob == [status |-> "absent", url |-> NoUrl, errorMessage |-> NoMessage,
              completedAt |-> FALSE, rawDocId |-> NoId, docChunkIds |-> <<>>]

\* run: which delivery of the job this call of process() is.
IdleWorker == [pc |-> "idle", job |-> 0, run |-> 0, url |-> NoUrl,
               text |-> NullText, title |-> <<>>, chunks |-> <<>>,
               err |-> NoMessage]

\* WeaviateService.updateObject: merge the given properties into the object.
UpdateObject(store, id, props) ==
    [store EXCEPT ![id] =
        [f \in DOMAIN store[id] |->
            IF f \in DOMAIN props THEN props[f] ELSE store[id][f]]]

\* WeaviateService.createObject at a caller-supplied id.
CreateObject(store, id, props) == [store EXCEPT ![id] = props]

\* uuidv4() gives a fresh id: the k-th id drawn by a call of
\* processUrlForIngestion is named by the call (job, delivery) and k.
Uuid(w, k) == <<wk[w].job, wk[w].run, k>>

\* The call log gets the call and its result; -1 is null, -2 an exception,
\* any other result is the length of what was returned.
Called(w, call, result) ==
    calls' = calls \cup {[job |-> wk[w].job, run |-> wk[w].run,
                          call |-> call, result |-> result]}

IngestInit ==
    /\ ingestJob = [j \in JobIds |-> AbsentJob]
    /\ rawDoc = {}
    /\ docChunk = {}
    /\ queue = {}
    /\ delivered = [j \in JobIds |-> 0]
    /\ submitted = [j \in JobIds |-> "none"]
    /\ nextJob = 1
    /\ chunkWrites = {}
    /\ escaped = {}
    /\ calls = {}
    /\ wk = [w \in Workers |-> IdleWorker]

(***************************************************************************)
(* IngestionService.addUrlToQueue: create the pending IngestJob object,    *)
(* then add the work item to the queue; an error of either call is         *)
(* rethrown to the submitter.  One step per await: submitted is "adding"   *)
(* while queue.add is awaited.                                             *)
(***************************************************************************)
PendingJob(url) == [status |-> "pending", url |-> url, errorMessage |-> NoMessage,
                    completedAt |-> FALSE, rawDocId |-> NoId, docChunkIds |-> <<>>]

\* Variant of AddUrlToQueue that adds the work item before it creates the
\* record.
AddUrlToQueueEnqueuesFirst(url) ==
    /\ nextJob <= MaxJobs
    /\ nextJob' = nextJob + 1
    /\ queue' = queue \cup {nextJob}
    /\ submitted' = [submitted EXCEPT ![nextJob] = "adding"]
    /\ UNCHANGED <<ingestJob, rawDoc, docChunk, delivered, chunkWrites, escaped,
                   calls, wk>>

\* The call up to the end of createObject('IngestJob', ..., jobId): the
\* record exists and queue.add is called, or the error is rethrown.
AddUrlToQueue(url) ==
    /\ nextJob <= MaxJobs
    /\ nextJob' = nextJob + 1
    /\ \/ /\ ingestJob' = CreateObject(ingestJob, nextJob, PendingJob(url))
          /\ submitted' = [submitted EXCEPT ![nextJob] = "adding"]
       \/ /\ submitted' = [submitted EXCEPT ![nextJob] = "createFailed"]
          /\ UNCHANGED ingestJob
    /\ UNCHANGED <<rawDoc, docChunk, queue, delivered, chunkWrites, escaped, calls,
                   wk>>

\* ingestionQueue.add('ingestUrl', { url, jobId }) has ended: the work item
\* is in the queue and the job is returned, or the error is rethrown (the
\* record stays).
QueueAdd(j, ok) ==
    /\ submitted[j] = "adding"
    /\ IF ok
       THEN /\ queue' = queue \cup {j}
            /\ submitted' = [submitted EXCEPT ![j] = "queued"]
       ELSE /\ submitted' = [submitted EXCEPT ![j] = "addFailed"]
            /\ UNCHANGED queue
    /\ UNCHANGED <<ingestJob, rawDoc, docChunk, delivered, nextJob, chunkWrites,
                   escaped, calls, wk>>

(***************************************************************************)
(* The queue hands a waiting work item to an idle worker:                  *)
(* IngestionProcessor.process is called with the job.                      *)
(***************************************************************************)
RECURSIVE DeliveredUpTo(_)
DeliveredUpTo(j) == IF j = 0 THEN 0 ELSE delivered[j] + DeliveredUpTo(j - 1)

TotalDelivered == DeliveredUpTo(MaxJobs)

\* The worker slots are interchangeable: the first idle one takes the job.
Process(w, j) ==
    /\ wk[w].pc = "idle"
    /\ \A v \in Workers : wk[v].pc = "idle" => w <= v
    /\ j \in queue
    /\ TotalDelivered < MaxDeliveries
    /\ queue' = queue \ {j}
    /\ delivered' = [delivered EXCEPT ![j] = @ + 1]
    /\ wk' = [wk EXCEPT ![w] = [IdleWorker EXCEPT !.pc = "markProcessing",
                                                  !.job = j,
                                                  !.run = delivered[j] + 1,
                                                  !.url = ingestJob[j].url]]
    /\ UNCHANGED <<ingestJob, rawDoc, docChunk, submitted, nextJob, chunkWrites, escaped,
                   calls>>

(***************************************************************************)
(* Delivery is at-least-once: the queue may hand out again a work item it  *)
(* has handed out before (a stalled or retried job).                       *)
(***************************************************************************)
Redeliver(j) ==
    /\ delivered[j] > 0
    /\ j \notin queue
    /\ Cardinality(queue) + TotalDelivered < MaxDeliveries
    /\ queue' = queue \cup {j}
    /\ UNCHANGED <<ingestJob, rawDoc, docChunk, delivered, submitted, nextJob, chunkWrites,
                   escaped, calls, wk>>

(***************************************************************************)
(* How a call of process() ends.  processUrlForIngestion returns, and so   *)
(* does process(); or an exception leaves processUrlForIngestion, and      *)
(* process() logs it and rethrows it.                                      *)
(***************************************************************************)
Returns(w) ==
    /\ wk' = [wk EXCEPT ![w] = IdleWorker]
    /\ UNCHANGED escaped

Throws(w) ==
    /\ wk' = [wk EXCEPT ![w] = IdleWorker]
    /\ escaped' = escaped \cup {<<wk[w].job, wk[w].run>>}

\* One more step of the same call.
Goes(w, pc) ==
    /\ wk' = [wk EXCEPT ![w].pc = pc]
    /\ UNCHANGED escaped

\* An exception raised inside the try block: control goes to the catch block.
Caught(w, msg) ==
    /\ wk' = [wk EXCEPT ![w] = [@ EXCEPT !.pc = "catch", !.err = msg,
                                         !.text = NullText, !.title = <<>>,
                                         !.chunks = <<>>]]
    /\ UNCHANGED escaped

(***************************************************************************)
(* processUrlForIngestion, one step per await.                             *)
(***************************************************************************)
\* updateObject(status: 'processing'), before the try block.
MarkProcessing(w) ==
    /\ wk[w].pc = "markProcessing"
    /\ \/ /\ ingestJob' = UpdateObject(ingestJob, wk[w].job, [status |-> "processing"])
          /\ Goes(w, "extract")
       \/ /\ Throws(w)
          /\ UNCHANGED ingestJob
    /\ UNCHANGED <<rawDoc, docChunk, queue, delivered, submitted, nextJob, chunkWrites, calls>>

\* if (url.endsWith('.pdf')) fetchPdfContent else fetchHtmlContent
Extractor(url) ==
    IF EndsWith(url, PdfSuffix) THEN "fetchPdfContent" ELSE "fetchHtmlContent"

\* documentTitle: the file name of a PDF, the title of an article.
DocumentTitle(url) ==
    IF EndsWith(url, PdfSuffix) THEN FileName(url) ELSE ArticleTitle

\* Variant of Extract that goes on with a document it did not get.
ExtractIgnoresNull(w, t) ==
    /\ wk[w].pc = "extract"
    /\ Called(w, Extractor(wk[w].url), IF t.kind = "null" THEN -1 ELSE t.len)
    /\ wk' = [wk EXCEPT ![w].text = t,
                        ![w].title = DocumentTitle(wk[w].url),
                        ![w].pc = "createRawDoc"]
    /\ UNCHANGED <<ingestJob, rawDoc, docChunk, queue, delivered,
                   submitted, nextJob, chunkWrites, escaped>>

\* The extractor returns t: the text (with a title), or null.  An empty text
\* counts as none (if (pdfContent), articleData.content).
Extract(w, t) ==
    /\ wk[w].pc = "extract"
    /\ Called(w, Extractor(wk[w].url), IF t.kind = "null" THEN -1 ELSE t.len)
    /\ LET got == t.kind # "null" /\ t.len > 0 /\ DocumentTitle(wk[w].url) # <<>>
       IN wk' = [wk EXCEPT ![w].text = IF got THEN t ELSE NullText,
                           ![w].title = IF got THEN DocumentTitle(wk[w].url) ELSE <<>>,
                           ![w].pc = IF got THEN "createRawDoc" ELSE "failNoContent"]
    /\ UNCHANGED <<ingestJob, rawDoc, docChunk, queue, delivered,
                   submitted, nextJob, chunkWrites, escaped>>

\* fetchHtmlContent closes its page in a finally block outside any try:
\* when page.close() rejects, the exception reaches the try block of
\* processUrlForIngestion.
ExtractThrows(w) ==
    /\ wk[w].pc = "extract"
    /\ Extractor(wk[w].url) = "fetchHtmlContent"
    /\ Called(w, "fetchHtmlContent", -2)
    /\ Caught(w, ErrPage)
    /\ UNCHANGED <<ingestJob, rawDoc, docChunk, queue, delivered,
                   submitted, nextJob, chunkWrites>>

\* An early return of the try block: updateObject(status: 'failed', msg); return.
FailedProps(msg) == [status |-> "failed", errorMessage |-> msg, completedAt |-> TRUE]

MarkFailedAndReturn(w, msg) ==
    \/ /\ ingestJob' = UpdateObject(ingestJob, wk[w].job, FailedProps(msg))
       /\ Returns(w)
    \/ /\ Caught(w, ErrUpdate)
       /\ UNCHANGED ingestJob

FailNoContent(w) ==
    /\ wk[w].pc = "failNoContent"
    /\ MarkFailedAndReturn(w, MsgNoContent)
    /\ UNCHANGED <<rawDoc, docChunk, queue, delivered, submitted, nextJob, chunkWrites, calls>>

\* createObject('RawDoc', ..., rawDocId) with rawDocId = uuidv4().
CreateRawDoc(w) ==
    /\ wk[w].pc = "createRawDoc"
    /\ \/ /\ rawDoc' = rawDoc \cup {[id |-> Uuid(w, 0), job |-> wk[w].job,
                                     title |-> wk[w].title]}
          /\ Goes(w, "chunk")
       \/ /\ Caught(w, ErrCreate)
          /\ UNCHANGED rawDoc
    /\ UNCHANGED <<ingestJob, docChunk, queue, delivered, submitted, nextJob, chunkWrites,
                   calls>>

\* Variant of Chunk in which a failure of the splitter is an exception.
ChunkRaises(w, splitterOk) ==
    /\ wk[w].pc = "chunk"
    /\ Called(w, "chunkText", IF splitterOk THEN Len(ChunkText(wk[w].text, TRUE))
                                            ELSE -2)
    /\ IF splitterOk
       THEN /\ wk' = [wk EXCEPT ![w].chunks = ChunkText(wk[w].text, TRUE),
                                ![w].text = NullText,
                                ![w].pc = IF ChunkText(wk[w].text, TRUE) = <<>>
                                          THEN "failNoChunks" ELSE "embed"]
            /\ UNCHANGED escaped
       ELSE Caught(w, "splitter failed")
    /\ UNCHANGED <<ingestJob, rawDoc, docChunk, queue, delivered,
                   submitted, nextJob, chunkWrites>>

\* chunks = await this.chunkText(rawDocText)
Chunk(w, splitterOk) ==
    /\ wk[w].pc = "chunk"
    /\ LET chunks == ChunkText(wk[w].text, splitterOk)
       IN /\ Called(w, "chunkText", Len(chunks))
          /\ wk' = [wk EXCEPT ![w].chunks = chunks, ![w].text = NullText,
                              ![w].pc = IF chunks = <<>> THEN "failNoChunks"
                                                         ELSE "embed"]
    /\ UNCHANGED <<ingestJob, rawDoc, docChunk, queue, delivered,
                   submitted, nextJob, chunkWrites, escaped>>

FailNoChunks(w) ==
    /\ wk[w].pc = "failNoChunks"
    /\ MarkFailedAndReturn(w, MsgNoChunks)
    /\ UNCHANGED <<rawDoc, docChunk, queue, delivered, submitted, nextJob, chunkWrites, calls>>

\* generateEmbeddings for n chunks: null (no API key, or the embedder
\* throws; -1), or the vectors the embedder returned: n of them, or fewer,
\* or more.
EmbedResults(n) == {-1, n - 1, n, n + 1}

\* Variant of Embed that does not compare the number of vectors.
EmbedUnchecked(w, e) ==
    /\ wk[w].pc = "embed"
    /\ Called(w, "generateEmbeddings", e)
    /\ wk' = [wk EXCEPT ![w].pc = IF e = -1 THEN "failEmbed" ELSE "createChunks"]
    /\ UNCHANGED <<ingestJob, rawDoc, docChunk, queue, delivered,
                   submitted, nextJob, chunkWrites, escaped>>

\* embeddings = await this.generateEmbeddings(chunks), e vectors or null.
Embed(w, e) ==
    /\ wk[w].pc = "embed"
    /\ Called(w, "generateEmbeddings", e)
    /\ wk' = [wk EXCEPT ![w].pc = IF e = -1 \/ e # Len(wk[w].chunks)
                                  THEN "failEmbed" ELSE "createChunks"]
    /\ UNCHANGED <<ingestJob, rawDoc, docChunk, queue, delivered,
                   submitted, nextJob, chunkWrites, escaped>>

FailEmbed(w) ==
    /\ wk[w].pc = "failEmbed"
    /\ MarkFailedAndReturn(w, MsgEmbed)
    /\ UNCHANGED <<rawDoc, docChunk, queue, delivered, submitted, nextJob, chunkWrites, calls>>

\* Variant of ChunkObjects that gives chunk i the vector of the chunk after it
\* (the first one to the last chunk).
ChunkObjectsShifted(w, ok) ==
    {[id |-> Uuid(w, i), doc |-> Uuid(w, 0), job |-> wk[w].job, index |-> i,
      text |-> wk[w].chunks[i], title |-> wk[w].title,
      vector |-> (i % Len(wk[w].chunks)) + 1] : i \in ok}

\* One DocChunk object per chunk, with the id uuidv4() gave it: those of
\* the chunks in ok.  vector is the position of the object's vector in the
\* embedder's result.
ChunkObjects(w, ok) ==
    {[id |-> Uuid(w, i), doc |-> Uuid(w, 0), job |-> wk[w].job, index |-> i,
      text |-> wk[w].chunks[i], title |-> wk[w].title, vector |-> i] : i \in ok}

\* chunks.map(...): one createObject('DocChunk', ..., uuidv4(),
\* embeddings[index]) per chunk is issued, then Promise.all is awaited.
CreateChunks(w) ==
    /\ wk[w].pc = "createChunks"
    /\ chunkWrites' = chunkWrites \cup ChunkObjects(w, DOMAIN wk[w].chunks)
    /\ wk' = [wk EXCEPT ![w].pc = "awaitChunks", ![w].chunks = <<>>,
                        ![w].title = <<>>]
    /\ UNCHANGED <<ingestJob, rawDoc, docChunk, queue, delivered, submitted, nextJob,
                   escaped, calls>>

\* The worker that awaits Promise.all over the write of object d, if any.
Awaiting(d) ==
    {w \in Workers : /\ wk[w].pc = "awaitChunks"
                     /\ wk[w].job = d.id[1] /\ wk[w].run = d.id[2]}

\* Variant of ChunkWriteDone that swallows a rejected createObject: Promise.all
\* resolves when every write has ended, whether it was resolved or rejected.
ChunkWriteDoneSwallowsRejection(d, ok) ==
    /\ d \in chunkWrites
    /\ chunkWrites' = chunkWrites \ {d}
    /\ docChunk' = (IF ok THEN docChunk \cup {d} ELSE docChunk)
    /\ IF Awaiting(d) = {}
       THEN UNCHANGED <<wk, escaped>>
       ELSE LET w == CHOOSE w \in Awaiting(d) : TRUE
                others == {e \in chunkWrites \ {d} :
                              e.id[1] = d.id[1] /\ e.id[2] = d.id[2]}
            IN  IF others = {} THEN Goes(w, "markCompleted")
                ELSE UNCHANGED <<wk, escaped>>
    /\ UNCHANGED <<ingestJob, rawDoc, queue, delivered, submitted, nextJob, calls>>

\* One createObject('DocChunk') ends.  Promise.all rejects with the first
\* write that is rejected, while the other writes go on, and resolves when
\* every write is resolved; a write that ends after the rejection changes
\* the store only.
ChunkWriteDone(d, ok) ==
    /\ d \in chunkWrites
    /\ chunkWrites' = chunkWrites \ {d}
    /\ docChunk' = (IF ok THEN docChunk \cup {d} ELSE docChunk)
    /\ IF Awaiting(d) = {}
       THEN UNCHANGED <<wk, escaped>>
       ELSE LET w == CHOOSE w \in Awaiting(d) : TRUE
                others == {e \in chunkWrites \ {d} :
                              e.id[1] = d.id[1] /\ e.id[2] = d.id[2]}
            IN  IF ~ok THEN Caught(w, ErrCreate)
                ELSE IF others = {} THEN Goes(w, "markCompleted")
                ELSE UNCHANGED <<wk, escaped>>
    /\ UNCHANGED <<ingestJob, rawDoc, queue, delivered, submitted, nextJob, calls>>

\* The number of chunks chunkText returned to the call worker w is running.
ChunkCount(w) ==
    LET c == CHOOSE c \in calls :
                 c.job = wk[w].job /\ c.run = wk[w].run /\ c.call = "chunkText"
    IN  c.result

\* docChunkIds: chunks.map((_, index) => `DocChunk/${uuidv4()}`): one newly
\* drawn id per chunk.  The ids 1..n of the call were drawn for the DocChunk
\* objects, so these are the ids n+1..2n.
RecordedChunkIds(w) ==
    [i \in 1..ChunkCount(w) |-> <<"DocChunk/", Uuid(w, ChunkCount(w) + i)>>]

\* updateObject(status: 'completed', docChunkIds, rawDocId, errorMessage: null,
\* completedAt, ...).
CompletedProps(w) ==
    [status |-> "completed", errorMessage |-> NoMessage, completedAt |-> TRUE,
     rawDocId |-> Uuid(w, 0), docChunkIds |-> RecordedChunkIds(w)]

MarkCompleted(w) ==
    /\ wk[w].pc = "markCompleted"
    /\ \/ /\ ingestJob' = UpdateObject(ingestJob, wk[w].job, CompletedProps(w))
          /\ Returns(w)
       \/ /\ Caught(w, ErrUpdate)
          /\ UNCHANGED ingestJob
    /\ UNCHANGED <<rawDoc, docChunk, queue, delivered, submitted, nextJob, chunkWrites, calls>>

\* Variant of CatchBlock that puts the failed job back into the queue.
CatchBlockRequeues(w) ==
    /\ wk[w].pc = "catch"
    /\ \/ /\ ingestJob' = UpdateObject(ingestJob, wk[w].job, FailedProps(wk[w].err))
          /\ Returns(w)
       \/ /\ Throws(w)
          /\ UNCHANGED ingestJob
    /\ queue' = queue \cup {wk[w].job}
    /\ UNCHANGED <<rawDoc, docChunk, delivered, submitted, nextJob, chunkWrites, calls>>

\* The catch block: updateObject(status: 'failed', errorMessage: error.message),
\* not guarded: its own failure leaves processUrlForIngestion.
CatchBlock(w) ==
    /\ wk[w].pc = "catch"
    /\ \/ /\ ingestJob' = UpdateObject(ingestJob, wk[w].job, FailedProps(wk[w].err))
          /\ Returns(w)
       \/ /\ Throws(w)
          /\ UNCHANGED ingestJob
    /\ UNCHANGED <<rawDoc, docChunk, queue, delivered, submitted, nextJob, chunkWrites, calls>>

\* A step of the call of process() that worker w is running.
WorkerStep(w) ==
    \/ MarkProcessing(w)
    \/ \E t \in IngestTexts : Extract(w, t)
    \/ ExtractThrows(w)
    \/ FailNoContent(w)
    \/ CreateRawDoc(w)
    \/ \E ok \in BOOLEAN : Chunk(w, ok)
    \/ FailNoChunks(w)
    \/ \E e \in EmbedResults(Len(wk[w].chunks)) : Embed(w, e)
    \/ FailEmbed(w)
    \/ CreateChunks(w)
    \/ \E d \in chunkWrites, ok \in BOOLEAN : w \in Awaiting(d) /\ ChunkWriteDone(d, ok)
    \/ MarkCompleted(w)
    \/ CatchBlock(w)

(***************************************************************************)
(* One call of IngestionService.chunkText on its own.                      *)
(*   splitPc   "idle", "called" or "returned"                              *)
(*   splitIn   the text argument                                           *)
(*   splitOut  the chunks returned                                         *)
(*   splitErr  whether the splitter threw (the error is logged)            *)
(***************************************************************************)
VARIABLES splitPc, splitIn, splitOut, splitErr

splitVars == <<splitPc, splitIn, splitOut, splitErr>>

SplitInit ==
    /\ splitPc = "idle"
    /\ splitIn = NullText
    /\ splitOut = <<>>
    /\ splitErr = FALSE

\* The texts chunkText is called with.
ChunkerTexts == (AllTexts \cup MixedTexts) \ {NullText}

\* Those of them a call can be made with now: chunkText is called once.
CallableTexts == IF splitPc = "idle" THEN ChunkerTexts ELSE {}

CallChunkText(text) ==
    /\ splitPc = "idle"
    /\ splitPc' = "called"
    /\ splitIn' = text
    /\ UNCHANGED <<splitOut, splitErr>>

ChunkTextReturns(splitterOk) ==
    /\ splitPc = "called"
    /\ splitPc' = "returned"
    /\ splitOut' = ChunkText(splitIn, splitterOk)
    /\ splitErr' = (~IsBlank(splitIn) /\ ~splitterOk)
    /\ UNCHANGED splitIn

(***************************************************************************)
(* The shared browser and the calls of fetchHtmlContent.                   *)
(*   modPc     "constructed", "initializing" while onModuleInit awaits     *)
(*             initializeBrowser, "ready" once it has returned             *)
(*   ib        the call of initializeBrowser: "idle" (none in flight),     *)
(*             "closing" with the instance it closes, or "launching"       *)
(*   browser   this.browser: the instance it refers to, 0 for null         *)
(*   inst      every browser instance: "none" (not launched), "live"       *)
(*             (connected) or "gone" (disconnected or closed)              *)
(*   handlers  the instances with a 'disconnected' handler                 *)
(*   launches  the launches begun so far                                   *)
(*   fetches   the calls of fetchHtmlContent begun so far                  *)
(*   fc        the position and the locals of each caller's call           *)
(*   opened    for every page opened: its instance and whether that was    *)
(*             connected when newPage was called                           *)
(*   pagesOpen the pages that are open (opened, not closed, their instance *)
(*             still there): the call that opened each, its instance, and  *)
(*             whether a close() of it was rejected                        *)
(***************************************************************************)
MaxLaunches == 2      \* launches of a browser, the one of onModuleInit included
MaxFetches == 2       \* calls of fetchHtmlContent

\* The calls of fetchHtmlContent that can be in flight together.  A new call
\* is given the first of these that is free.
Callers == {1, 2}
Instances == 1..MaxLaunches

\* What the rendering of a page and extractArticle give for it:
\* "article": an article with content and title; "bodyOnly": no article (null,
\* or no content or no title) for a page that shows body text; "error": one
\* of the calls on the page throws.  (The program never reads the body, so a
\* page without an article and without text goes the way of "bodyOnly".)
PageKinds == {"article", "bodyOnly", "error"}

VARIABLES modPc, ib, browser, inst, handlers, launches, fetches, fc, opened,
          pagesOpen

fetchVars == <<modPc, ib, browser, inst, handlers, launches, fetches, fc, opened, pagesOpen>>

IdleInit == [pc |-> "idle", target |-> 0]

IdleCall == [pc |-> "idle", id |-> 0, found |-> "none", launched |-> FALSE,
             page |-> 0, kind |-> "none", result |-> "none"]

FetchInit ==
    /\ modPc = "constructed"
    /\ ib = IdleInit
    /\ browser = 0
    /\ inst = [i \in Instances |-> "none"]
    /\ handlers = {}
    /\ launches = 0
    /\ fetches = 0
    /\ fc = [c \in Callers |-> IdleCall]
    /\ opened = {}
    /\ pagesOpen = {}

\* The instance a launch that succeeds now creates.
NewInstance == Cardinality({i \in Instances : inst[i] # "none"}) + 1

\* The calls that await the close() of an instance and call chromium.launch()
\* after it: their launches are still to come.
Closing ==
    Cardinality({c \in Callers : fc[c].pc = "closing"})
        + (IF ib.pc = "closing" THEN 1 ELSE 0)

\* initializeBrowser() up to its first await: with a handle, this.browser
\* .close(); without one, chromium.launch().
BeginInitialize ==
    /\ ib.pc = "idle"
    /\ launches + Closing < MaxLaunches
    /\ IF browser # 0
       THEN /\ ib' = [pc |-> "closing", target |-> browser]
            /\ UNCHANGED launches
       ELSE /\ ib' = [pc |-> "launching", target |-> 0]
            /\ launches' = launches + 1
    /\ UNCHANGED <<browser, inst, handlers, fetches, fc, opened, pagesOpen>>

\* onModuleInit calls initializeBrowser and awaits it.
OnModuleInit ==
    /\ modPc = "constructed"
    /\ modPc' = "initializing"
    /\ BeginInitialize

\* A later call of initializeBrowser (the method is public).
InitializeBrowser ==
    /\ modPc = "ready"
    /\ BeginInitialize
    /\ UNCHANGED modPc

\* The call of initializeBrowser has returned.
InitReturns == modPc' = (IF modPc = "initializing" THEN "ready" ELSE modPc)

\* close() of the present instance has ended.  Resolved: the instance is
\* closed and its pages with it, this.browser = null and chromium.launch()
\* is called.  Rejected:
\* the catch block sets this.browser = null and the call returns.
InitCloseDone(ok) ==
    /\ ib.pc = "closing"
    /\ browser' = 0
    /\ IF ok
       THEN /\ inst' = [inst EXCEPT ![ib.target] = "gone"]
            /\ pagesOpen' = {p \in pagesOpen : p.inst # ib.target}
            /\ launches' = launches + 1
            /\ ib' = [ib EXCEPT !.pc = "launching"]
            /\ UNCHANGED modPc
       ELSE /\ ib' = IdleInit
            /\ InitReturns
            /\ UNCHANGED <<inst, launches, pagesOpen>>
    /\ UNCHANGED <<handlers, fetches, fc, opened>>

\* The launch of initializeBrowser has ended.  Resolved: this.browser is the
\* new instance and gets its 'disconnected' handler.  Rejected: the catch
\* block sets this.browser = null.
InitLaunchDone(ok) ==
    /\ ib.pc = "launching"
    /\ ib' = IdleInit
    /\ InitReturns
    /\ IF ok
       THEN /\ inst' = [inst EXCEPT ![NewInstance] = "live"]
            /\ browser' = NewInstance
            /\ handlers' = handlers \cup {NewInstance}
       ELSE /\ browser' = 0
            /\ UNCHANGED <<inst, handlers>>
    /\ UNCHANGED <<launches, fetches, fc, opened, pagesOpen>>

\* Variant of Connected that looks at the handle only.
HandlePresent == browser # 0

\* this.browser && this.browser.isConnected()
Connected == browser # 0 /\ inst[browser] = "live"

\* Whether no call of fetchHtmlContent is in flight under c.
Free(c) == fc[c].pc \in {"idle", "returned"}

\* fetchHtmlContent up to its first await.  With a connected browser:
\* the second test and this.browser.newPage().  With a handle that is not
\* connected: this.browser.close().  Without a handle: chromium.launch().
StartFetch(c) ==
    /\ Free(c)
    /\ \A d \in Callers : d < c => ~Free(d)
    /\ fetches < MaxFetches
    /\ fetches' = fetches + 1
    /\ IF Connected
       THEN /\ fc' = [fc EXCEPT ![c] = [IdleCall EXCEPT !.id = fetches + 1,
                                                        !.found = "connected",
                                                        !.page = browser,
                                                        !.pc = "newPage"]]
            /\ opened' = opened \cup {[inst |-> browser,
                                       live |-> inst[browser] = "live"]}
            /\ UNCHANGED <<launches, pagesOpen>>
       ELSE /\ launches + Closing < MaxLaunches
            /\ launches' = (IF browser # 0 THEN launches ELSE launches + 1)
            /\ fc' = [fc EXCEPT ![c] =
                        [IdleCall EXCEPT !.id = fetches + 1,
                                         !.found = IF browser # 0 THEN "disconnected"
                                                                  ELSE "absent",
                                         !.launched = browser = 0,
                                         !.pc = IF browser # 0 THEN "closing"
                                                               ELSE "launching"]]
            /\ UNCHANGED <<opened, pagesOpen>>
    /\ UNCHANGED <<modPc, ib, browser, inst, handlers>>

\* close() of the disconnected instance has returned or thrown:
\* this.browser = null, then chromium.launch().
CloseDone(c) ==
    /\ fc[c].pc = "closing"
    /\ browser' = 0
    /\ launches' = launches + 1
    /\ fc' = [fc EXCEPT ![c].pc = "launching", ![c].launched = TRUE]
    /\ UNCHANGED <<modPc, ib, inst, handlers, fetches, opened, pagesOpen>>

\* The launch has ended.  On success this.browser is the new instance (no
\* handler is registered here), the second test passes and newPage() is
\* called; on failure the call returns null.
LaunchDone(c, ok) ==
    /\ fc[c].pc = "launching"
    /\ IF ok
       THEN /\ inst' = [inst EXCEPT ![NewInstance] = "live"]
            /\ browser' = NewInstance
            /\ fc' = [fc EXCEPT ![c].page = NewInstance, ![c].pc = "newPage"]
            /\ opened' = opened \cup {[inst |-> NewInstance, live |-> TRUE]}
       ELSE /\ fc' = [fc EXCEPT ![c].result = "null", ![c].pc = "returned"]
            /\ UNCHANGED <<inst, browser, opened>>
    /\ UNCHANGED <<modPc, ib, handlers, launches, fetches, pagesOpen>>

\* this.browser.newPage() has ended.  Resolved: the call has its page.
\* Rejected (as it is when the instance went away meanwhile): the catch block
\* finds no page, takes no screenshot, nothing is closed and the call returns
\* null.
NewPageDone(c, ok) ==
    /\ fc[c].pc = "newPage"
    /\ inst[fc[c].page] # "live" => ~ok
    /\ IF ok
       THEN /\ fc' = [fc EXCEPT ![c].pc = "setExtraHTTPHeaders"]
            /\ pagesOpen' = pagesOpen \cup {[id |-> fc[c].id, inst |-> fc[c].page,
                                             closeFailed |-> FALSE]}
       ELSE /\ fc' = [fc EXCEPT ![c].kind = "error", ![c].result = "null",
                                ![c].pc = "returned"]
            /\ UNCHANGED pagesOpen
    /\ UNCHANGED <<modPc, ib, browser, inst, handlers, launches, fetches, opened>>

\* The calls on the page that give its HTML, each awaited in turn.
PageCalls == <<"setExtraHTTPHeaders", "goto", "content">>

\* Where a call goes when the page call it awaits has resolved.
AfterPageCall(pc) ==
    IF pc = "setExtraHTTPHeaders" THEN "goto"
    ELSE IF pc = "goto" THEN "content"
    ELSE "extract"

\* Variant of Render without the finally block: after an exception the call
\* returns null at once.
RenderNoFinally(c, ok) ==
    /\ \E i \in DOMAIN PageCalls : fc[c].pc = PageCalls[i]
    /\ inst[fc[c].page] # "live" => ~ok
    /\ fc' = IF ok THEN [fc EXCEPT ![c].pc = AfterPageCall(fc[c].pc)]
                   ELSE [fc EXCEPT ![c].kind = "error", ![c].result = "null",
                                   ![c].pc = "returned"]
    /\ UNCHANGED <<modPc, ib, browser, inst, handlers, launches, fetches, opened, pagesOpen>>

\* One of page.setExtraHTTPHeaders, page.goto and page.content has ended.
\* Resolved: the next one is called and, after page.content,
\* extractArticle.  Rejected (a navigation error or timeout, or the instance
\* has gone away): the catch block calls page.screenshot.
Render(c, ok) ==
    /\ \E i \in DOMAIN PageCalls : fc[c].pc = PageCalls[i]
    /\ inst[fc[c].page] # "live" => ~ok
    /\ fc' = IF ok THEN [fc EXCEPT ![c].pc = AfterPageCall(fc[c].pc)]
                   ELSE [fc EXCEPT ![c].kind = "error", ![c].result = "null",
                                   ![c].pc = "screenshot"]
    /\ UNCHANGED <<modPc, ib, browser, inst, handlers, launches, fetches, opened, pagesOpen>>

\* What extractArticle gives for the HTML of a page: it works on the string,
\* whatever has become of the browser, and catches its own errors.
ArticleKinds == PageKinds \ {"error"}

\* extractArticle(htmlContent, url, jobId) has ended.  An article with
\* content and title is the result and the finally block closes the page;
\* without one the result is null and page.screenshot is called first.
ExtractArticle(c, k) ==
    /\ fc[c].pc = "extract"
    /\ fc' = [fc EXCEPT ![c].kind = k,
                        ![c].result = IF k = "article" THEN "article" ELSE "null",
                        ![c].pc = IF k = "article" THEN "closePage" ELSE "screenshot"]
    /\ UNCHANGED <<modPc, ib, browser, inst, handlers, launches, fetches, opened, pagesOpen>>

\* page.screenshot of the no-article branch or of the catch block has ended
\* (processUrlForIngestion always passes a jobId).  Its rejection is caught
\* and logged: either way the finally block closes the page next.
Screenshot(c, ok) ==
    /\ fc[c].pc = "screenshot"
    /\ inst[fc[c].page] # "live" => ~ok
    /\ fc' = [fc EXCEPT ![c].pc = "closePage"]
    /\ UNCHANGED <<modPc, ib, browser, inst, handlers, launches, fetches, opened, pagesOpen>>

\* finally { await page.close() } has ended.  Resolved: the page is closed.
\* Rejected: the page is left as it is and the exception leaves
\* fetchHtmlContent in place of the result.
ClosePage(c, ok) ==
    /\ fc[c].pc = "closePage"
    /\ fc' = [fc EXCEPT ![c].pc = "returned",
                        ![c].result = IF ok THEN @ ELSE "throw"]
    /\ pagesOpen' = IF ok
                    THEN {p \in pagesOpen : p.id # fc[c].id}
                    ELSE {IF p.id = fc[c].id THEN [p EXCEPT !.closeFailed = TRUE] ELSE p :
                              p \in pagesOpen}
    /\ UNCHANGED <<modPc, ib, browser, inst, handlers, launches, fetches, opened>>

\* A browser process ends or loses its connection, and its pages go with it.
\* The handler registered by initializeBrowser sets this.browser = null.
Disconnect(i) ==
    /\ inst[i] = "live"
    /\ inst' = [inst EXCEPT ![i] = "gone"]
    /\ browser' = IF i \in handlers THEN 0 ELSE browser
    /\ pagesOpen' = {p \in pagesOpen : p.inst # i}
    /\ UNCHANGED <<modPc, ib, handlers, launches, fetches, fc, opened>>

(***************************************************************************)
(* A call of generateEmbeddings.                                           *)
(*   genPc       "idle", "called" (not yet returned) or "returned"         *)
(*   genIn       the number of chunks given                                *)
(*   genKey      whether GEMINI_API_KEY is configured                      *)
(*   genClients  the GoogleGenerativeAIEmbeddings clients constructed      *)
(*   genCalls    the calls of embedDocuments (requests to the API)         *)
(*   genOut      the result: the number of vectors, -1 for null            *)
(***************************************************************************)
MaxBatch == 24        \* chunks given to one call of generateEmbeddings

VARIABLES genPc, genIn, genKey, genClients, genCalls, genOut

genVars == <<genPc, genIn, genKey, genClients, genCalls, genOut>>

GenInit ==
    /\ genPc = "idle"
    /\ genIn = 0
    /\ genKey = FALSE
    /\ genClients = 0
    /\ genCalls = 0
    /\ genOut = 0

\* Variant of CallGenerateEmbeddings that constructs the client and calls
\* embedDocuments before it looks at the key.
CallGenerateEmbeddingsClientFirst(n, key) ==
    /\ genPc = "idle"
    /\ genPc' = "called"
    /\ genIn' = n
    /\ genKey' = key
    /\ IF n = 0
       THEN UNCHANGED <<genClients, genCalls>>
       ELSE /\ genClients' = genClients + 1
            /\ genCalls' = genCalls + 1
    /\ UNCHANGED genOut

\* The turn of the call of generateEmbeddings, up to its first await: with no
\* chunks, or without an API key, nothing is constructed; else the client is
\* constructed and embedDocuments is called once, and the call waits for its
\* answer.
CallGenerateEmbeddings(n, key) ==
    /\ genPc = "idle"
    /\ genPc' = "called"
    /\ genIn' = n
    /\ genKey' = key
    /\ IF n = 0 \/ ~key
       THEN UNCHANGED <<genClients, genCalls>>
       ELSE /\ genClients' = genClients + 1
            /\ genCalls' = genCalls + 1
    /\ UNCHANGED genOut

\* generateEmbeddings returns: [] for no chunks; null without an API key; else
\* the vectors embedDocuments answered with (e of them), or null when it
\* threw (e = -1).
GenerateEmbeddingsReturns(e) ==
    /\ genPc = "called"
    /\ genPc' = "returned"
    /\ IF genIn = 0
       THEN /\ e = 0
            /\ genOut' = 0
       ELSE IF ~genKey
       THEN /\ e = -1
            /\ genOut' = -1
       ELSE genOut' = e
    /\ UNCHANGED <<genIn, genKey, genClients, genCalls>>

(***************************************************************************)
(* A call of DocumentIngestionService.startIngestion.                      *)
(*   siPc      "idle", the store call the method awaits ("create",         *)
(*             "toProcessing", "toCompleted", "toFailed"), "work" (the     *)
(*             stubbed processing) or "returned"                           *)
(*   siJobId   the generated jobId                                         *)
(*   siUrl     the url argument                                            *)
(*   siClient  whether the Weaviate client is initialized (getClient       *)
(*             returns it) or not (getClient throws)                       *)
(*   siCalls   the store calls issued, in order, with what they write      *)
(*   siRecord  the states the stored IngestJob has had, in order           *)
(*   siError   the message of the error the catch block caught             *)
(*   siResult  what the call returned; "thrown" if it rejected             *)
(***************************************************************************)
VARIABLES siPc, siJobId, siUrl, siClient, siCalls, siRecord, siError, siResult

startVars == <<siPc, siJobId, siUrl, siClient, siCalls, siRecord, siError, siResult>>

\* uuidv4()
JobUuids == {"uuid-1", "uuid-2"}

DocUrls == {"http://example.com/document.pdf", "http://example.com/page"}

\* The message of the error a rejected store call carries; it can be empty.
StoreErrors == {"", "Weaviate creator failed", "socket hang up"}

NoError == "no error"
MsgUnknown == "Unknown error during ingestion"
MsgNotInitialized ==
    "Weaviate client not initialized. Ensure onModuleInit has completed successfully."

StartInit ==
    /\ siPc = "idle"
    /\ siJobId = "none"
    /\ siUrl = "none"
    /\ siClient = FALSE
    /\ siCalls = <<>>
    /\ siRecord = <<>>
    /\ siError = NoError
    /\ siResult = "none"

\* What a store call writes.
JobWrite(op, status, msg, completed) ==
    [op |-> op, status |-> status, errorMessage |-> msg, completedAt |-> completed]

\* const errorMessage = error.message || 'Unknown error during ingestion'
ErrorMessageOf(text) == IF text = "" THEN MsgUnknown ELSE text

\* The catch block up to its await: the update to FAILED is issued.
StartCatch(text) ==
    /\ siError' = text
    /\ siCalls' = Append(siCalls, JobWrite("update", "FAILED", ErrorMessageOf(text), TRUE))
    /\ siPc' = "toFailed"

\* startIngestion(url) up to its first await.  With a client the creation of
\* the QUEUED record is issued.  Without one getClient throws in the try
\* block and again in the catch block, where it is logged: the call returns.
StartIngestion(id, url, client) ==
    /\ siPc = "idle"
    /\ siJobId' = id
    /\ siUrl' = url
    /\ siClient' = client
    /\ IF client
       THEN /\ siCalls' = Append(siCalls, JobWrite("create", "QUEUED", NoError, FALSE))
            /\ siPc' = "create"
            /\ UNCHANGED <<siError, siResult>>
       ELSE /\ siError' = MsgNotInitialized
            /\ siPc' = "returned"
            /\ siResult' = id
            /\ UNCHANGED siCalls
    /\ UNCHANGED siRecord

\* The creation returns: the update to PROCESSING is issued.
CreateOk ==
    /\ siPc = "create"
    /\ siRecord' = Append(siRecord, JobWrite("create", "QUEUED", NoError, FALSE))
    /\ siCalls' = Append(siCalls, JobWrite("update", "PROCESSING", NoError, FALSE))
    /\ siPc' = "toProcessing"
    /\ UNCHANGED <<siJobId, siUrl, siClient, siError, siResult>>

CreateFail(text) ==
    /\ siPc = "create"
    /\ StartCatch(text)
    /\ UNCHANGED <<siJobId, siUrl, siClient, siRecord, siResult>>

\* The update to PROCESSING returns: the stubbed work (a 2 s timer) starts.
ProcessingOk ==
    /\ siPc = "toProcessing"
    /\ siRecord' = Append(siRecord, JobWrite("update", "PROCESSING", NoError, FALSE))
    /\ siPc' = "work"
    /\ UNCHANGED <<siJobId, siUrl, siClient, siCalls, siError, siResult>>

ProcessingFail(text) ==
    /\ siPc = "toProcessing"
    /\ StartCatch(text)
    /\ UNCHANGED <<siJobId, siUrl, siClient, siRecord, siResult>>

\* The timer fires: the update to COMPLETED is issued.
WorkDone ==
    /\ siPc = "work"
    /\ siCalls' = Append(siCalls, JobWrite("update", "COMPLETED", NoError, TRUE))
    /\ siPc' = "toCompleted"
    /\ UNCHANGED <<siJobId, siUrl, siClient, siRecord, siError, siResult>>

\* The update to COMPLETED returns: return { jobId }.
CompletedOk ==
    /\ siPc = "toCompleted"
    /\ siRecord' = Append(siRecord, JobWrite("update", "COMPLETED", NoError, TRUE))
    /\ siPc' = "returned"
    /\ siResult' = siJobId
    /\ UNCHANGED <<siJobId, siUrl, siClient, siCalls, siError>>

CompletedFail(text) ==
    /\ siPc = "toCompleted"
    /\ StartCatch(text)
    /\ UNCHANGED <<siJobId, siUrl, siClient, siRecord, siResult>>

\* Variant of FailedUpdateDone that lets a rejected update to FAILED escape.
FailedUpdateRethrows(ok) ==
    /\ siPc = "toFailed"
    /\ siRecord' = IF ok /\ siRecord # <<>>
                   THEN Append(siRecord, siCalls[Len(siCalls)])
                   ELSE siRecord
    /\ siPc' = "returned"
    /\ siResult' = IF ok THEN siJobId ELSE "thrown"
    /\ UNCHANGED <<siJobId, siUrl, siClient, siCalls, siError>>

\* The update to FAILED returns or throws (logged only): return { jobId }.
\* An update changes the record only if the record exists.
FailedUpdateDone(ok) ==
    /\ siPc = "toFailed"
    /\ siRecord' = IF ok /\ siRecord # <<>>
                   THEN Append(siRecord, siCalls[Len(siCalls)])
                   ELSE siRecord
    /\ siPc' = "returned"
    /\ siResult' = siJobId
    /\ UNCHANGED <<siJobId, siUrl, siClient, siCalls, siError>>

(***************************************************************************)
(* IngestionProcessor.process, the method the BullMQ worker calls for      *)
(* every job of the queue, with processUrlForIngestion seen from outside.  *)
(*   prPc      "idle", or "awaiting" while processUrlForIngestion runs     *)
(*   prJob     the job given to the call in progress                       *)
(*   prInvoked the jobs processUrlForIngestion has been invoked with       *)
(*   prLog     the calls of process() that have settled, in order          *)
(***************************************************************************)
MaxProcessCalls == 2  \* calls of process()

VARIABLES prPc, prJob, prInvoked, prLog

procVars == <<prPc, prJob, prInvoked, prLog>>

JobNames == {"ingestUrl", "otherJobType"}

JobDataUrls == {"http://example.com", "http://example.com/a.pdf"}

\* The errors processUrlForIngestion can reject with.
ServiceErrors == {"Processing failed", "updateObject rejected", "page.close rejected"}

NoJob == [name |-> "none", url |-> "none"]

ProcInit ==
    /\ prPc = "idle"
    /\ prJob = NoJob
    /\ prInvoked = <<>>
    /\ prLog = <<>>

\* A settled call: its job, whether processUrlForIngestion was invoked and
\* how that ended, and how process() ended.
Settled(job, invoked, service, thrown, outcome, error) ==
    [job |-> job, invoked |-> invoked, service |-> service, thrown |-> thrown,
     outcome |-> outcome, error |-> error]

\* process(job) up to its await: a job named 'ingestUrl' is handed to
\* processUrlForIngestion, any other is logged as unexpected and skipped.
ProcessJob(name, url) ==
    /\ prPc = "idle"
    /\ Len(prLog) < MaxProcessCalls
    /\ IF name = "ingestUrl"
       THEN /\ prPc' = "awaiting"
            /\ prJob' = [name |-> name, url |-> url]
            /\ prInvoked' = Append(prInvoked, [name |-> name, url |-> url])
            /\ UNCHANGED prLog
       ELSE /\ prLog' = Append(prLog, Settled([name |-> name, url |-> url], FALSE,
                                              "none", "none", "resolved", "none"))
            /\ UNCHANGED <<prPc, prJob, prInvoked>>

\* processUrlForIngestion resolves: process() logs the success and resolves.
ServiceResolves ==
    /\ prPc = "awaiting"
    /\ prLog' = Append(prLog, Settled(prJob, TRUE, "resolved", "none", "resolved", "none"))
    /\ prPc' = "idle"
    /\ prJob' = NoJob
    /\ UNCHANGED prInvoked

\* Variant of ServiceRejects that logs the error and resolves.
ServiceRejectsSwallowed(e) ==
    /\ prPc = "awaiting"
    /\ prLog' = Append(prLog, Settled(prJob, TRUE, "rejected", e, "resolved", "none"))
    /\ prPc' = "idle"
    /\ prJob' = NoJob
    /\ UNCHANGED prInvoked

\* processUrlForIngestion rejects with e: the catch block logs e and throws it.
ServiceRejects(e) ==
    /\ prPc = "awaiting"
    /\ prLog' = Append(prLog, Settled(prJob, TRUE, "rejected", e, "rejected", e))
    /\ prPc' = "idle"
    /\ prJob' = NoJob
    /\ UNCHANGED prInvoked

(***************************************************************************)
(* The client-side reader chatWithBot.  The response body is a sequence of *)
(* characters; the six characters 'data: ' are written as the two          *)
(* characters "d" ":" and the JSON text of an event as one character, so   *)
(* that a read can end inside the prefix, between prefix and JSON text,    *)
(* and before or between the newlines.                                     *)
(*   botPc        "idle", "reading" or "returned"                          *)
(*   sseStream    the whole response body                                  *)
(*   ssePos       how much of it the reads have delivered so far           *)
(*   sseBuffer    the partial line kept between reads                      *)
(*   accumulatedContent, SSECitations  the locals of that name             *)
(*   onChunkCalls the contents given to onChunk, in order                  *)
(*   handled      the JSON texts of the events handled, in order           *)
(*   readFailed   whether reader.read() rejected                           *)
(*   splitInLine  whether some read has ended inside a line                *)
(*   chatResponse what the call returned                                   *)
(***************************************************************************)
MaxSseEvents == 2     \* events in one response body

VARIABLES botPc, sseStream, ssePos, sseBuffer, accumulatedContent, SSECitations,
          onChunkCalls, handled, readFailed, splitInLine, chatResponse

botVars == <<botPc, sseStream, ssePos, sseBuffer, accumulatedContent, SSECitations,
             onChunkCalls, handled, readFailed, splitInLine, chatResponse>>

\* The JSON texts: two llm_chunk events, the llm_response of the fallback,
\* llm_sources, an error with and one without a message, and an event the
\* reader has no branch for.
SsePayloads == {"A", "B", "R", "S", "E", "F", "X"}

ErrorPayloads == {p \in SsePayloads : p \in {"E", "F"}}

\* JSON.parse of a JSON text.
EventData(p) ==
    CASE p = "A" -> [type |-> "llm_chunk", content |-> <<"a">>, sources |-> <<>>,
                     message |-> "none"]
      [] p = "B" -> [type |-> "llm_chunk", content |-> <<"b", "c">>, sources |-> <<>>,
                     message |-> "none"]
      [] p = "R" -> [type |-> "llm_response", content |-> <<"r">>, sources |-> <<>>,
                     message |-> "none"]
      [] p = "S" -> [type |-> "llm_sources", content |-> <<>>, sources |-> <<1, 2>>,
                     message |-> "none"]
      [] p = "E" -> [type |-> "error", content |-> <<>>, sources |-> <<>>,
                     message |-> "Failed to process chat request."]
      [] p = "F" -> [type |-> "error", content |-> <<>>, sources |-> <<>>,
                     message |-> ""]
      [] OTHER   -> [type |-> "embedding_result", content |-> <<>>, sources |-> <<>>,
                     message |-> "none"]

\* One event as the server writes it: 'data: <JSON>\n\n'.
Frame(p) == <<"d", ":", p, "\n", "\n">>

RECURSIVE StreamOf(_)
StreamOf(ps) == IF ps = <<>> THEN <<>> ELSE Frame(Head(ps)) \o StreamOf(Tail(ps))

\* The well-formed response bodies of up to MaxSseEvents events.
WellFormedStreams ==
    {StreamOf(ps) : ps \in UNION {[1..n -> SsePayloads] : n \in 0..MaxSseEvents}}

\* A ChatResponse.
ChatResponse(success, content, citations, error) ==
    [success |-> success, content |-> content, citations |-> citations,
     error |-> error]

NoResponse == ChatResponse(FALSE, <<>>, <<>>, "none")

MsgStreamError == "An error occurred during chat."
MsgReadError == "Unknown stream error."
MsgNoStream == "Failed to connect to chat service."

\* What reader.read() can reject with: an Error, whose message is returned,
\* or another value.
ReadRejections ==
    {[isError |-> TRUE, message |-> "boom"],
     [isError |-> TRUE, message |-> "terminated"],
     [isError |-> TRUE, message |-> ""],
     [isError |-> FALSE, message |-> "boom"]}

BotInit ==
    /\ botPc = "idle"
    /\ sseStream = <<>>
    /\ ssePos = 0
    /\ sseBuffer = <<>>
    /\ accumulatedContent = <<>>
    /\ SSECitations = <<>>
    /\ onChunkCalls = <<>>
    /\ handled = <<>>
    /\ readFailed = FALSE
    /\ splitInLine = FALSE
    /\ chatResponse = NoResponse

\* s.split('\n')
RECURSIVE Split(_)
Split(s) ==
    IF \A k \in DOMAIN s : s[k] # "\n" THEN <<s>>
    ELSE LET k == CHOOSE k \in DOMAIN s :
                      s[k] = "\n" /\ \A m \in 1..(k - 1) : s[m] # "\n"
         IN  <<SubSeq(s, 1, k - 1)>> \o Split(SubSeq(s, k + 1, Len(s)))

\* The locals of the loop, and whether the loop has returned.
Locals(content, citations, forwarded, seen, returned, response) ==
    [content |-> content, citations |-> citations, calls |-> forwarded, seen |-> seen,
     returned |-> returned, response |-> response]

\* The branches on eventData.type.
HandleEvent(st, p) ==
    LET e == EventData(p)
        t == [st EXCEPT !.seen = Append(@, p)]
    IN  IF e.type = "llm_chunk" /\ e.content # <<>>
        THEN [t EXCEPT !.calls = Append(@, e.content), !.content = @ \o e.content]
        ELSE IF e.type = "llm_sources"
        THEN [t EXCEPT !.citations = @ \o e.sources]
        ELSE IF e.type = "llm_response" /\ e.content # <<>>
        THEN [t EXCEPT !.content = e.content, !.citations = @ \o e.sources]
        ELSE IF e.type = "error"
        THEN [t EXCEPT !.returned = TRUE,
                       !.response =
                           ChatResponse(FALSE, <<>>, <<>>,
                                        IF e.message = "" THEN MsgStreamError
                                                          ELSE e.message)]
        ELSE t

\* One complete line: a line that starts with 'data: ' and has a JSON text is
\* parsed and handled; a text that does not parse is logged and skipped.
HandleLine(st, line) ==
    IF Len(line) > 2 /\ line[1] = "d" /\ line[2] = ":"
    THEN IF Len(line) = 3 /\ line[3] \in SsePayloads
         THEN HandleEvent(st, line[3])
         ELSE st
    ELSE st

\* for (let i = 0; i < lines.length - 1; i++): every line but the last, until
\* an error event makes the function return.
RECURSIVE HandleLines(_, _, _)
HandleLines(st, lines, i) ==
    IF i >= Len(lines) \/ st.returned THEN st
    ELSE HandleLines(HandleLine(st, lines[i]), lines, i + 1)

\* What internal_streamChat resolves to: the response body, or null when
\* fetch rejected, the response was not ok or it had no body.
StreamResults ==
    {[body |-> TRUE, stream |-> s] : s \in WellFormedStreams}
        \cup {[body |-> FALSE, stream |-> <<>>]}

\* chatWithBot(query, onChunk, sessionId): without a stream it returns the
\* failure at once, with a stream it begins to read.
ChatWithBot(r) ==
    /\ botPc = "idle"
    /\ IF r.body
       THEN /\ botPc' = "reading"
            /\ sseStream' = r.stream
            /\ UNCHANGED chatResponse
       ELSE /\ botPc' = "returned"
            /\ chatResponse' = ChatResponse(FALSE, <<>>, <<>>, MsgNoStream)
            /\ UNCHANGED sseStream
    /\ UNCHANGED <<ssePos, sseBuffer, accumulatedContent, SSECitations, onChunkCalls,
                   handled, readFailed, splitInLine>>

\* Variant of Read that forgets the partial line at the end of a read.
ReadDropsPartialLine(n) ==
    /\ botPc = "reading"
    /\ n \in 1..(Len(sseStream) - ssePos)
    /\ LET lines == Split(sseBuffer \o SubSeq(sseStream, ssePos + 1, ssePos + n))
           st == HandleLines(Locals(accumulatedContent, SSECitations, onChunkCalls,
                                    handled, FALSE, NoResponse), lines, 1)
       IN  /\ accumulatedContent' = st.content
           /\ SSECitations' = st.citations
           /\ onChunkCalls' = st.calls
           /\ handled' = st.seen
           /\ chatResponse' = st.response
           /\ botPc' = IF st.returned THEN "returned" ELSE "reading"
           /\ sseBuffer' = <<>>
    /\ ssePos' = ssePos + n
    /\ splitInLine' = (splitInLine \/ sseStream[ssePos + n] # "\n")
    /\ UNCHANGED <<sseStream, readFailed>>

\* reader.read() gives the next n characters: they are appended to the buffer,
\* the complete lines are handled and the last, partial line is kept.
Read(n) ==
    /\ botPc = "reading"
    /\ n \in 1..(Len(sseStream) - ssePos)
    /\ LET lines == Split(sseBuffer \o SubSeq(sseStream, ssePos + 1, ssePos + n))
           st == HandleLines(Locals(accumulatedContent, SSECitations, onChunkCalls,
                                    handled, FALSE, NoResponse), lines, 1)
       IN  /\ accumulatedContent' = st.content
           /\ SSECitations' = st.citations
           /\ onChunkCalls' = st.calls
           /\ handled' = st.seen
           /\ chatResponse' = st.response
           /\ botPc' = IF st.returned THEN "returned" ELSE "reading"
           /\ sseBuffer' = lines[Len(lines)]
    /\ ssePos' = ssePos + n
    /\ splitInLine' = (splitInLine \/ sseBuffer' # <<>>)
    /\ UNCHANGED <<sseStream, readFailed>>

\* reader.read() reports done: { success: true, content, citations }.
ReadDone ==
    /\ botPc = "reading"
    /\ ssePos = Len(sseStream)
    /\ chatResponse' = ChatResponse(TRUE, accumulatedContent, SSECitations, "none")
    /\ botPc' = "returned"
    /\ UNCHANGED <<sseStream, ssePos, sseBuffer, accumulatedContent, SSECitations,
                   onChunkCalls, handled, readFailed, splitInLine>>

\* reader.read() rejects: the outer catch returns the failure, with the
\* message of the Error or the fixed text.
ReadFails(e) ==
    /\ botPc = "reading"
    /\ readFailed' = TRUE
    /\ chatResponse' = ChatResponse(FALSE, <<>>, <<>>,
                                    IF e.isError THEN e.message ELSE MsgReadError)
    /\ botPc' = "returned"
    /\ UNCHANGED <<sseStream, ssePos, sseBuffer, accumulatedContent, SSECitations,
                   onChunkCalls, handled, splitInLine>>

(***************************************************************************)
(* Chat state: one call of ChatService.sendMessageAndStreamResponse and    *)
(* its subscriber.                                                         *)
(*   cpc          position in the promise chain of the call; "idle": not   *)
(*                called yet                                               *)
(*   events       the notifications the subscriber has received, in order  *)
(*   streamEnd    "open", or how the Observable ended                      *)
(*   subscribed   whether the caller is still subscribed                   *)
(*   session      the sessionId argument                                   *)
(*   retrievedContext  the ids of the DocChunk objects the search         *)
(*                returned, in its order; NotSearched: none yet            *)
(*   failed       the stage whose external call failed, or "none"          *)
(*   frags        the fragments read from the generation stream so far     *)
(*   fullResponse the concatenation of their contents                      *)
(*   interactions the ChatInteraction objects of the store                 *)
(*   embedCalls, searchCalls, llmCalls, storeCalls                         *)
(*                calls made to the embedder, the search, the generative   *)
(*                model and the ChatInteraction creator                    *)
(***************************************************************************)
VARIABLES cpc, events, streamEnd, subscribed, session, retrievedContext, frags, fullResponse, failed,
          interactions, embedCalls, searchCalls, llmCalls, storeCalls

chatVars == <<cpc, events, streamEnd, subscribed, session, retrievedContext, frags, fullResponse, failed,
              interactions, embedCalls, searchCalls, llmCalls, storeCalls>>

vars == <<ingestVars, chatVars, splitVars, fetchVars, genVars, startVars, procVars, botVars>>

SearchLimit == 3      \* .withLimit(3)
MaxFrags == 2         \* fragments one generation stream yields

MaxStored == 4        \* DocChunk objects in the store

Sessions == {"none", "s1"}

\* The ids of the stored DocChunk objects.
StoredIds == 1..MaxStored

\* What the nearVector search can return: at most SearchLimit of the stored
\* objects, each once, in the order of their distance.
SearchResults ==
    {r \in UNION {[1..n -> StoredIds] : n \in 0..SearchLimit} :
        \A i, k \in DOMAIN r : i # k => r[i] # r[k]}

\* The value of retrievedContext before the search has returned.
NotSearched == <<0>>

\* The number of DocChunk objects retrieved; -1: none yet.
hits == IF retrievedContext = NotSearched THEN -1 ELSE Len(retrievedContext)

\* The contents a fragment of the generation stream can have, as sequences of
\* characters; a fragment can be the empty string.
FragmentTexts == {<<>>, <<"a">>, <<"b", "c">>}

\* The texts an exception of an external call can carry (error.message).
ExceptionTexts == {"ECONNREFUSED", "quota exceeded"}

MsgProcess == "Failed to process chat request."
MsgEmbedding == "Failed to process chat request due to embedding failure."

ChatInit ==
    /\ cpc = "idle"
    /\ events = <<>>
    /\ streamEnd = "open"
    /\ subscribed = FALSE
    /\ session = "none"
    /\ retrievedContext = NotSearched
    /\ frags = 0
    /\ fullResponse = <<>>
    /\ failed = "none"
    /\ interactions = {}
    /\ embedCalls = 0
    /\ searchCalls = 0
    /\ llmCalls = 0
    /\ storeCalls = 0

\* What the subscriber has received after subscriber.next(e): nothing is
\* delivered once the subscriber is unsubscribed or the Observable has ended.
Next_(evs, e) == IF subscribed /\ streamEnd = "open" THEN Append(evs, e) ELSE evs

\* An event: its type, the number n and the ids of the chunks it lists, and
\* for an error its message and its details.
Event(type, n) ==
    [type |-> type, n |-> n, ids |-> <<>>, content |-> <<>>, message |-> "none",
     details |-> "none"]

ListEvent(type, ids) ==
    [type |-> type, n |-> Len(ids), ids |-> ids, content |-> <<>>,
     message |-> "none", details |-> "none"]

\* { type: 'llm_chunk', content: chunk }
ChunkEvent(chunk) ==
    [type |-> "llm_chunk", n |-> 0, ids |-> <<>>, content |-> chunk,
     message |-> "none", details |-> "none"]

\* { type: 'error', message: msg, details: error.message }
ErrorEvent(msg, text) ==
    [type |-> "error", n |-> 0, ids |-> <<>>, content |-> <<>>, message |-> msg,
     details |-> text]

\* searchResults.map(obj => ({ id: obj._additional.id, properties: ... }))
RetrievedContext(results) == [k \in DOMAIN results |-> results[k]]

\* Variant of SourceIds that lists the sources in the opposite order.
SourceIdsReversed(ctx) == [k \in DOMAIN ctx |-> ctx[Len(ctx) + 1 - k]]

\* retrievedContext.map(doc => ({ id: doc.id, title: ..., url: ..., ... }))
SourceIds(ctx) == [k \in DOMAIN ctx |-> ctx[k]]

\* `weaviate://localhost/DocChunk/${doc.id}`
Beacon(id) == <<"weaviate://localhost/DocChunk/", id>>

\* retrievedContext.map(doc => beacon of doc.id)
Citations(ctx) == [k \in DOMAIN ctx |-> Beacon(ctx[k])]

\* subscriber.complete() / subscriber.error(e)
Complete == streamEnd' = (IF streamEnd = "open" THEN "complete" ELSE streamEnd)

Error(evs, msg, text) ==
    /\ events' = Next_(evs, ErrorEvent(msg, text))
    /\ streamEnd' = (IF streamEnd = "open" THEN "error" ELSE streamEnd)

(***************************************************************************)
(* sendMessageAndStreamResponse(query, sessionId) is called and its        *)
(* Observable subscribed to: embedQuery is started.                        *)
(***************************************************************************)
SendMessage(s) ==
    /\ cpc = "idle"
    /\ cpc' = "embedding"
    /\ session' = s
    /\ subscribed' = TRUE
    /\ UNCHANGED <<events, streamEnd, retrievedContext, frags, fullResponse, failed, interactions,
                   embedCalls, searchCalls, llmCalls, storeCalls>>

\* Variant of EmbedQueryOk that does not announce the embedding.
EmbedQueryOkSilent ==
    /\ cpc = "embedding"
    /\ embedCalls' = embedCalls + 1
    /\ cpc' = "searching"
    /\ UNCHANGED <<events, streamEnd, subscribed, session, retrievedContext, frags, fullResponse, failed,
                   interactions, searchCalls, llmCalls, storeCalls>>

\* Variant of EmbedQueryFail that calls the embedder a second time.
EmbedQueryFailRetry(text) ==
    /\ cpc = "embedding"
    /\ embedCalls' = embedCalls + 1
    /\ IF embedCalls = 0
       THEN UNCHANGED <<cpc, events, streamEnd, failed>>
       ELSE /\ failed' = "embedding"
            /\ Error(events, MsgEmbedding, text)
            /\ cpc' = "done"
    /\ UNCHANGED <<subscribed, session, retrievedContext, frags, fullResponse, interactions,
                   searchCalls, llmCalls, storeCalls>>

(***************************************************************************)
(* this.embedQuery(query): .then(...) on success, .catch(...) on failure.  *)
(***************************************************************************)
EmbedQueryOk ==
    /\ cpc = "embedding"
    /\ embedCalls' = embedCalls + 1
    /\ events' = Next_(events, Event("embedding_result", 0))
    /\ cpc' = "searching"
    /\ UNCHANGED <<streamEnd, subscribed, session, retrievedContext, frags, fullResponse, failed,
                   interactions, searchCalls, llmCalls, storeCalls>>

EmbedQueryFail(text) ==
    /\ cpc = "embedding"
    /\ embedCalls' = embedCalls + 1
    /\ failed' = "embedding"
    /\ Error(events, MsgEmbedding, text)
    /\ cpc' = "done"
    /\ UNCHANGED <<subscribed, session, retrievedContext, frags, fullResponse, interactions,
                   searchCalls, llmCalls, storeCalls>>

\* Variant of SearchOk without the branch for an empty context.
SearchOkNoFallback(results) ==
    /\ cpc = "searching"
    /\ searchCalls' = searchCalls + 1
    /\ retrievedContext' = RetrievedContext(results)
    /\ events' = Next_(events, ListEvent("retrieved_context",
                                         RetrievedContext(results)))
    /\ cpc' = "startStream"
    /\ UNCHANGED <<streamEnd, subscribed, session, frags, fullResponse, failed, interactions,
                   embedCalls, llmCalls, storeCalls>>

\* Variant of ProcessError that logs the error and tells the subscriber nothing.
ProcessErrorSwallowed(text) ==
    /\ cpc' = "done"
    /\ UNCHANGED <<events, streamEnd>>

(***************************************************************************)
(* The nearVector search with limit 3, then retrieved_context; with no     *)
(* context the fallback llm_response and complete().                       *)
(***************************************************************************)
SearchOk(results) ==
    /\ cpc = "searching"
    /\ searchCalls' = searchCalls + 1
    /\ retrievedContext' = RetrievedContext(results)
    /\ IF Len(results) = 0
       THEN /\ events' = Next_(Next_(events, ListEvent("retrieved_context", <<>>)),
                               Event("llm_response", 0))
            /\ Complete
            /\ cpc' = "done"
       ELSE /\ events' = Next_(events, ListEvent("retrieved_context",
                                                 RetrievedContext(results)))
            /\ cpc' = "startStream"
            /\ UNCHANGED streamEnd
    /\ UNCHANGED <<subscribed, session, frags, fullResponse, failed, interactions,
                   embedCalls, llmCalls, storeCalls>>

\* The catch (processError) block.
ProcessError(text) ==
    /\ Error(events, MsgProcess, text)
    /\ cpc' = "done"

SearchFail(text) ==
    /\ cpc = "searching"
    /\ searchCalls' = searchCalls + 1
    /\ failed' = "search"
    /\ ProcessError(text)
    /\ UNCHANGED <<subscribed, session, retrievedContext, frags, fullResponse, interactions,
                   embedCalls, llmCalls, storeCalls>>

\* Variant of StreamFail that stores the partial answer before reporting.
StreamFailPersistsPartial(text) ==
    /\ cpc = "streaming"
    /\ failed' = "generation"
    /\ interactions' = interactions \cup
          {[userSessionId |-> session, answer |-> fullResponse,
            citations |-> Citations(retrievedContext)]}
    /\ Error(events, MsgProcess, text)
    /\ cpc' = "done"
    /\ UNCHANGED <<subscribed, session, retrievedContext, frags, fullResponse, embedCalls, searchCalls,
                   llmCalls, storeCalls>>

(***************************************************************************)
(* await ragChain.stream(...), then the for-await loop over the stream.    *)
(***************************************************************************)
StreamStartOk ==
    /\ cpc = "startStream"
    /\ llmCalls' = llmCalls + 1
    /\ cpc' = "streaming"
    /\ UNCHANGED <<events, streamEnd, subscribed, session, retrievedContext, frags, fullResponse, failed,
                   interactions, embedCalls, searchCalls, storeCalls>>

StreamStartFail(text) ==
    /\ cpc = "startStream"
    /\ llmCalls' = llmCalls + 1
    /\ failed' = "generation"
    /\ ProcessError(text)
    /\ UNCHANGED <<subscribed, session, retrievedContext, frags, fullResponse, interactions,
                   embedCalls, searchCalls, storeCalls>>

\* One iteration: fullResponse += chunk; subscriber.next(llm_chunk).
NextFragment(chunk) ==
    /\ cpc = "streaming"
    /\ frags < MaxFrags
    /\ frags' = frags + 1
    /\ fullResponse' = fullResponse \o chunk
    /\ events' = Next_(events, ChunkEvent(chunk))
    /\ UNCHANGED <<cpc, streamEnd, subscribed, session, retrievedContext, failed,
                   interactions, embedCalls, searchCalls, llmCalls, storeCalls>>

\* The stream throws while it is iterated.
StreamFail(text) ==
    /\ cpc = "streaming"
    /\ failed' = "generation"
    /\ ProcessError(text)
    /\ UNCHANGED <<subscribed, session, retrievedContext, frags, fullResponse, interactions,
                   embedCalls, searchCalls, llmCalls, storeCalls>>

\* The stream ends: the ChatInteraction is built and its creation awaited.
StreamEnd ==
    /\ cpc = "streaming"
    /\ cpc' = "persisting"
    /\ UNCHANGED <<events, streamEnd, subscribed, session, retrievedContext, frags, fullResponse, failed,
                   interactions, embedCalls, searchCalls, llmCalls, storeCalls>>

\* Variant of ChatInteraction that records no citation.
ChatInteractionNoCitations ==
    [userSessionId |-> session, answer |-> fullResponse, citations |-> <<>>]

(***************************************************************************)
(* The creation of the ChatInteraction returns or throws (logged only),    *)
(* then llm_sources and complete().                                        *)
(***************************************************************************)
ChatInteraction ==
    [userSessionId |-> session, answer |-> fullResponse,
     citations |-> Citations(retrievedContext)]

Sources ==
    /\ events' = Next_(events, ListEvent("llm_sources", SourceIds(retrievedContext)))
    /\ Complete
    /\ cpc' = "done"

\* Variant of PersistFail that reports the rejected write to the subscriber.
PersistFailReportsError ==
    /\ cpc = "persisting"
    /\ storeCalls' = storeCalls + 1
    /\ failed' = "persistence"
    /\ Error(events, MsgProcess, "createObject rejected")
    /\ cpc' = "done"
    /\ UNCHANGED <<subscribed, session, retrievedContext, frags, fullResponse, interactions, embedCalls,
                   searchCalls, llmCalls>>

PersistOk ==
    /\ cpc = "persisting"
    /\ storeCalls' = storeCalls + 1
    /\ interactions' = interactions \cup {ChatInteraction}
    /\ Sources
    /\ UNCHANGED <<subscribed, session, retrievedContext, frags, fullResponse, failed, embedCalls,
                   searchCalls, llmCalls>>

PersistFail ==
    /\ cpc = "persisting"
    /\ storeCalls' = storeCalls + 1
    /\ failed' = "persistence"
    /\ Sources
    /\ UNCHANGED <<subscribed, session, retrievedContext, frags, fullResponse, interactions, embedCalls,
                   searchCalls, llmCalls>>

(***************************************************************************)
(* The caller disconnects.  The Observable was created without a teardown  *)
(* function and the chain never reads subscriber.closed: only the delivery *)
(* of later notifications stops.                                           *)
(***************************************************************************)
Unsubscribe ==
    /\ subscribed
    /\ cpc \notin {"idle", "done"}
    /\ subscribed' = FALSE
    /\ UNCHANGED <<cpc, events, streamEnd, session, retrievedContext, frags, fullResponse, failed,
                   interactions, embedCalls, searchCalls, llmCalls, storeCalls>>

(***************************************************************************)
(* Specifications.  The two pipelines share no state: each specification   *)
(* runs one of them and leaves the other as it was constructed.            *)
(***************************************************************************)
Init == IngestInit /\ ChatInit /\ SplitInit /\ FetchInit /\ GenInit /\ StartInit /\ ProcInit /\ BotInit

IngestNext ==
    \/ \E u \in Urls : AddUrlToQueue(u) /\ UNCHANGED <<chatVars, splitVars, fetchVars, genVars, startVars, procVars, botVars>>
    \/ \E j \in JobIds, ok \in BOOLEAN : QueueAdd(j, ok) /\ UNCHANGED <<chatVars, splitVars, fetchVars, genVars, startVars, procVars, botVars>>
    \/ \E w \in Workers, j \in JobIds : Process(w, j) /\ UNCHANGED <<chatVars, splitVars, fetchVars, genVars, startVars, procVars, botVars>>
    \/ \E j \in JobIds : Redeliver(j) /\ UNCHANGED <<chatVars, splitVars, fetchVars, genVars, startVars, procVars, botVars>>
    \/ \E w \in Workers : MarkProcessing(w) /\ UNCHANGED <<chatVars, splitVars, fetchVars, genVars, startVars, procVars, botVars>>
    \/ \E w \in Workers, t \in IngestTexts : Extract(w, t) /\ UNCHANGED <<chatVars, splitVars, fetchVars, genVars, startVars, procVars, botVars>>
    \/ \E w \in Workers : ExtractThrows(w) /\ UNCHANGED <<chatVars, splitVars, fetchVars, genVars, startVars, procVars, botVars>>
    \/ \E w \in Workers : FailNoContent(w) /\ UNCHANGED <<chatVars, splitVars, fetchVars, genVars, startVars, procVars, botVars>>
    \/ \E w \in Workers : CreateRawDoc(w) /\ UNCHANGED <<chatVars, splitVars, fetchVars, genVars, startVars, procVars, botVars>>
    \/ \E w \in Workers, ok \in BOOLEAN : Chunk(w, ok) /\ UNCHANGED <<chatVars, splitVars, fetchVars, genVars, startVars, procVars, botVars>>
    \/ \E w \in Workers : FailNoChunks(w) /\ UNCHANGED <<chatVars, splitVars, fetchVars, genVars, startVars, procVars, botVars>>
    \/ \E w \in Workers : \E e \in EmbedResults(Len(wk[w].chunks)) :
          Embed(w, e) /\ UNCHANGED <<chatVars, splitVars, fetchVars, genVars, startVars, procVars, botVars>>
    \/ \E w \in Workers : FailEmbed(w) /\ UNCHANGED <<chatVars, splitVars, fetchVars, genVars, startVars, procVars, botVars>>
    \/ \E w \in Workers : CreateChunks(w) /\ UNCHANGED <<chatVars, splitVars, fetchVars, genVars, startVars, procVars, botVars>>
    \/ \E d \in chunkWrites, ok \in BOOLEAN : ChunkWriteDone(d, ok) /\ UNCHANGED <<chatVars, splitVars, fetchVars, genVars, startVars, procVars, botVars>>
    \/ \E w \in Workers : MarkCompleted(w) /\ UNCHANGED <<chatVars, splitVars, fetchVars, genVars, startVars, procVars, botVars>>
    \/ \E w \in Workers : CatchBlock(w) /\ UNCHANGED <<chatVars, splitVars, fetchVars, genVars, startVars, procVars, botVars>>

IngestSpec == Init /\ [][IngestNext]_vars

\* Every external call returns a result or an error: a call of process()
\* that can take a step takes it.
FairIngestSpec ==
    IngestSpec /\ \A w \in Workers : WF_vars(WorkerStep(w) /\ UNCHANGED <<chatVars, splitVars, fetchVars, genVars, startVars, procVars, botVars>>)

(***************************************************************************)
(* Runs in which the queue hands out every work item once.                 *)
(***************************************************************************)
DeliverOnceNext ==
    \/ \E u \in Urls : AddUrlToQueue(u) /\ UNCHANGED <<chatVars, splitVars, fetchVars, genVars, startVars, procVars, botVars>>
    \/ \E j \in JobIds, ok \in BOOLEAN : QueueAdd(j, ok) /\ UNCHANGED <<chatVars, splitVars, fetchVars, genVars, startVars, procVars, botVars>>
    \/ \E w \in Workers, j \in JobIds : Process(w, j) /\ UNCHANGED <<chatVars, splitVars, fetchVars, genVars, startVars, procVars, botVars>>
    \/ \E w \in Workers : MarkProcessing(w) /\ UNCHANGED <<chatVars, splitVars, fetchVars, genVars, startVars, procVars, botVars>>
    \/ \E w \in Workers, t \in IngestTexts : Extract(w, t) /\ UNCHANGED <<chatVars, splitVars, fetchVars, genVars, startVars, procVars, botVars>>
    \/ \E w \in Workers : ExtractThrows(w) /\ UNCHANGED <<chatVars, splitVars, fetchVars, genVars, startVars, procVars, botVars>>
    \/ \E w \in Workers : FailNoContent(w) /\ UNCHANGED <<chatVars, splitVars, fetchVars, genVars, startVars, procVars, botVars>>
    \/ \E w \in Workers : CreateRawDoc(w) /\ UNCHANGED <<chatVars, splitVars, fetchVars, genVars, startVars, procVars, botVars>>
    \/ \E w \in Workers, ok \in BOOLEAN : Chunk(w, ok) /\ UNCHANGED <<chatVars, splitVars, fetchVars, genVars, startVars, procVars, botVars>>
    \/ \E w \in Workers : FailNoChunks(w) /\ UNCHANGED <<chatVars, splitVars, fetchVars, genVars, startVars, procVars, botVars>>
    \/ \E w \in Workers : \E e \in EmbedResults(Len(wk[w].chunks)) :
          Embed(w, e) /\ UNCHANGED <<chatVars, splitVars, fetchVars, genVars, startVars, procVars, botVars>>
    \/ \E w \in Workers : FailEmbed(w) /\ UNCHANGED <<chatVars, splitVars, fetchVars, genVars, startVars, procVars, botVars>>
    \/ \E w \in Workers : CreateChunks(w) /\ UNCHANGED <<chatVars, splitVars, fetchVars, genVars, startVars, procVars, botVars>>
    \/ \E d \in chunkWrites, ok \in BOOLEAN : ChunkWriteDone(d, ok) /\ UNCHANGED <<chatVars, splitVars, fetchVars, genVars, startVars, procVars, botVars>>
    \/ \E w \in Workers : MarkCompleted(w) /\ UNCHANGED <<chatVars, splitVars, fetchVars, genVars, startVars, procVars, botVars>>
    \/ \E w \in Workers : CatchBlock(w) /\ UNCHANGED <<chatVars, splitVars, fetchVars, genVars, startVars, procVars, botVars>>

DeliverOnceSpec == Init /\ [][DeliverOnceNext]_vars

(***************************************************************************)
(* Calls of chunkText with texts of every length up to the bound.          *)
(***************************************************************************)
ChunkNext ==
    \/ \E t \in CallableTexts :
          CallChunkText(t) /\ UNCHANGED <<ingestVars, chatVars, fetchVars, genVars, startVars, procVars, botVars>>
    \/ \E ok \in BOOLEAN :
          ChunkTextReturns(ok) /\ UNCHANGED <<ingestVars, chatVars, fetchVars, genVars, startVars, procVars, botVars>>

ChunkSpec == Init /\ [][ChunkNext]_vars

(***************************************************************************)
(* Runs of the pipeline in which nothing fails: the worker takes one work  *)
(* item at a time, every call of the store succeeds, the extractor returns *)
(* a text, the splitter does not throw and the embedder returns one vector *)
(* per chunk.                                                              *)
(***************************************************************************)
Succeeds(w) == wk'[w].pc # "catch" /\ escaped' = escaped

\* The length under which fetchHtmlContent logs that the content "seems too
\* short or empty" (htmlContent.length < 100).
MinContentLength == 100

\* A text below that length, and the texts of every hundred characters.
ExtractedTexts ==
    {SolidText(MinContentLength - 1)}
        \cup {SolidText(100 * k) : k \in 1..MaxTextHundreds}

CleanRunNext ==
    \/ \E u \in Urls : AddUrlToQueue(u) /\ submitted'[nextJob] = "adding" /\ UNCHANGED <<chatVars, splitVars, fetchVars, genVars, startVars, procVars, botVars>>
    \/ \E j \in JobIds : QueueAdd(j, TRUE) /\ UNCHANGED <<chatVars, splitVars, fetchVars, genVars, startVars, procVars, botVars>>
    \/ \E j \in JobIds : Process(1, j) /\ UNCHANGED <<chatVars, splitVars, fetchVars, genVars, startVars, procVars, botVars>>
    \/ MarkProcessing(1) /\ Succeeds(1) /\ UNCHANGED <<chatVars, splitVars, fetchVars, genVars, startVars, procVars, botVars>>
    \/ \E t \in ExtractedTexts : Extract(1, t) /\ UNCHANGED <<chatVars, splitVars, fetchVars, genVars, startVars, procVars, botVars>>
    \/ CreateRawDoc(1) /\ Succeeds(1) /\ UNCHANGED <<chatVars, splitVars, fetchVars, genVars, startVars, procVars, botVars>>
    \/ Chunk(1, TRUE) /\ UNCHANGED <<chatVars, splitVars, fetchVars, genVars, startVars, procVars, botVars>>
    \/ Embed(1, Len(wk[1].chunks)) /\ UNCHANGED <<chatVars, splitVars, fetchVars, genVars, startVars, procVars, botVars>>
    \/ CreateChunks(1) /\ UNCHANGED <<chatVars, splitVars, fetchVars, genVars, startVars, procVars, botVars>>
    \/ \E d \in chunkWrites : ChunkWriteDone(d, TRUE) /\ UNCHANGED <<chatVars, splitVars, fetchVars, genVars, startVars, procVars, botVars>>
    \/ MarkCompleted(1) /\ Succeeds(1) /\ UNCHANGED <<chatVars, splitVars, fetchVars, genVars, startVars, procVars, botVars>>

CleanRunSpec == Init /\ [][CleanRunNext]_vars

(***************************************************************************)
(* Concurrent calls of fetchHtmlContent on the shared browser.             *)
(***************************************************************************)
FetchNext ==
    \/ OnModuleInit /\ UNCHANGED <<ingestVars, chatVars, splitVars, genVars, startVars, procVars, botVars>>
    \/ InitializeBrowser /\ UNCHANGED <<ingestVars, chatVars, splitVars, genVars, startVars, procVars, botVars>>
    \/ \E ok \in BOOLEAN : InitCloseDone(ok) /\ UNCHANGED <<ingestVars, chatVars, splitVars, genVars, startVars, procVars, botVars>>
    \/ \E ok \in BOOLEAN : InitLaunchDone(ok) /\ UNCHANGED <<ingestVars, chatVars, splitVars, genVars, startVars, procVars, botVars>>
    \/ \E c \in Callers : StartFetch(c) /\ UNCHANGED <<ingestVars, chatVars, splitVars, genVars, startVars, procVars, botVars>>
    \/ \E c \in Callers : CloseDone(c) /\ UNCHANGED <<ingestVars, chatVars, splitVars, genVars, startVars, procVars, botVars>>
    \/ \E c \in Callers, ok \in BOOLEAN :
          LaunchDone(c, ok) /\ UNCHANGED <<ingestVars, chatVars, splitVars, genVars, startVars, procVars, botVars>>
    \/ \E c \in Callers, ok \in BOOLEAN :
          NewPageDone(c, ok) /\ UNCHANGED <<ingestVars, chatVars, splitVars, genVars, startVars, procVars, botVars>>
    \/ \E c \in Callers, ok \in BOOLEAN :
          Render(c, ok) /\ UNCHANGED <<ingestVars, chatVars, splitVars, genVars, startVars, procVars, botVars>>
    \/ \E c \in Callers, k \in ArticleKinds :
          ExtractArticle(c, k) /\ UNCHANGED <<ingestVars, chatVars, splitVars, genVars, startVars, procVars, botVars>>
    \/ \E c \in Callers, ok \in BOOLEAN :
          Screenshot(c, ok) /\ UNCHANGED <<ingestVars, chatVars, splitVars, genVars, startVars, procVars, botVars>>
    \/ \E c \in Callers, ok \in BOOLEAN :
          ClosePage(c, ok) /\ UNCHANGED <<ingestVars, chatVars, splitVars, genVars, startVars, procVars, botVars>>
    \/ \E i \in Instances : Disconnect(i) /\ UNCHANGED <<ingestVars, chatVars, splitVars, genVars, startVars, procVars, botVars>>

FetchSpec == Init /\ [][FetchNext]_vars

(***************************************************************************)
(* Calls of generateEmbeddings with every number of chunks up to the       *)
(* bound, with and without an API key.                                     *)
(***************************************************************************)
GenNext ==
    \/ \E n \in 0..MaxBatch, key \in BOOLEAN :
          CallGenerateEmbeddings(n, key)
              /\ UNCHANGED <<ingestVars, chatVars, splitVars, fetchVars, startVars, procVars, botVars>>
    \/ \E e \in EmbedResults(genIn) \cup {0} :
          GenerateEmbeddingsReturns(e)
              /\ UNCHANGED <<ingestVars, chatVars, splitVars, fetchVars, startVars, procVars, botVars>>

GenSpec == Init /\ [][GenNext]_vars

StartNext ==
    \/ \E id \in JobUuids, url \in DocUrls, client \in BOOLEAN :
          StartIngestion(id, url, client) /\ UNCHANGED <<ingestVars, chatVars, splitVars, fetchVars, genVars, procVars, botVars>>
    \/ CreateOk /\ UNCHANGED <<ingestVars, chatVars, splitVars, fetchVars, genVars, procVars, botVars>>
    \/ \E text \in StoreErrors : CreateFail(text) /\ UNCHANGED <<ingestVars, chatVars, splitVars, fetchVars, genVars, procVars, botVars>>
    \/ ProcessingOk /\ UNCHANGED <<ingestVars, chatVars, splitVars, fetchVars, genVars, procVars, botVars>>
    \/ \E text \in StoreErrors : ProcessingFail(text) /\ UNCHANGED <<ingestVars, chatVars, splitVars, fetchVars, genVars, procVars, botVars>>
    \/ WorkDone /\ UNCHANGED <<ingestVars, chatVars, splitVars, fetchVars, genVars, procVars, botVars>>
    \/ CompletedOk /\ UNCHANGED <<ingestVars, chatVars, splitVars, fetchVars, genVars, procVars, botVars>>
    \/ \E text \in StoreErrors : CompletedFail(text) /\ UNCHANGED <<ingestVars, chatVars, splitVars, fetchVars, genVars, procVars, botVars>>
    \/ \E ok \in BOOLEAN : FailedUpdateDone(ok) /\ UNCHANGED <<ingestVars, chatVars, splitVars, fetchVars, genVars, procVars, botVars>>

StartSpec == Init /\ [][StartNext]_vars

ProcNext ==
    \/ \E name \in JobNames, url \in JobDataUrls :
          ProcessJob(name, url) /\ UNCHANGED <<ingestVars, chatVars, splitVars, fetchVars, genVars, startVars, botVars>>
    \/ ServiceResolves /\ UNCHANGED <<ingestVars, chatVars, splitVars, fetchVars, genVars, startVars, botVars>>
    \/ \E e \in ServiceErrors : ServiceRejects(e) /\ UNCHANGED <<ingestVars, chatVars, splitVars, fetchVars, genVars, startVars, botVars>>

ProcSpec == Init /\ [][ProcNext]_vars

BotNext ==
    \/ \E r \in StreamResults : ChatWithBot(r) /\ UNCHANGED <<ingestVars, chatVars, splitVars, fetchVars, genVars, startVars, procVars>>
    \/ \E n \in 1..(5 * MaxSseEvents) : Read(n) /\ UNCHANGED <<ingestVars, chatVars, splitVars, fetchVars, genVars, startVars, procVars>>
    \/ ReadDone /\ UNCHANGED <<ingestVars, chatVars, splitVars, fetchVars, genVars, startVars, procVars>>
    \/ \E e \in ReadRejections : ReadFails(e) /\ UNCHANGED <<ingestVars, chatVars, splitVars, fetchVars, genVars, startVars, procVars>>

BotSpec == Init /\ [][BotNext]_vars

ChatNext ==
    \/ \E s \in Sessions : SendMessage(s) /\ UNCHANGED <<ingestVars, splitVars, fetchVars, genVars, startVars, procVars, botVars>>
    \/ EmbedQueryOk /\ UNCHANGED <<ingestVars, splitVars, fetchVars, genVars, startVars, procVars, botVars>>
    \/ \E text \in ExceptionTexts : EmbedQueryFail(text) /\ UNCHANGED <<ingestVars, splitVars, fetchVars, genVars, startVars, procVars, botVars>>
    \/ \E r \in SearchResults : SearchOk(r) /\ UNCHANGED <<ingestVars, splitVars, fetchVars, genVars, startVars, procVars, botVars>>
    \/ \E text \in ExceptionTexts : SearchFail(text) /\ UNCHANGED <<ingestVars, splitVars, fetchVars, genVars, startVars, procVars, botVars>>
    \/ StreamStartOk /\ UNCHANGED <<ingestVars, splitVars, fetchVars, genVars, startVars, procVars, botVars>>
    \/ \E text \in ExceptionTexts : StreamStartFail(text) /\ UNCHANGED <<ingestVars, splitVars, fetchVars, genVars, startVars, procVars, botVars>>
    \/ \E chunk \in FragmentTexts : NextFragment(chunk) /\ UNCHANGED <<ingestVars, splitVars, fetchVars, genVars, startVars, procVars, botVars>>
    \/ \E text \in ExceptionTexts : StreamFail(text) /\ UNCHANGED <<ingestVars, splitVars, fetchVars, genVars, startVars, procVars, botVars>>
    \/ StreamEnd /\ UNCHANGED <<ingestVars, splitVars, fetchVars, genVars, startVars, procVars, botVars>>
    \/ PersistOk /\ UNCHANGED <<ingestVars, splitVars, fetchVars, genVars, startVars, procVars, botVars>>
    \/ PersistFail /\ UNCHANGED <<ingestVars, splitVars, fetchVars, genVars, startVars, procVars, botVars>>
    \/ Unsubscribe /\ UNCHANGED <<ingestVars, splitVars, fetchVars, genVars, startVars, procVars, botVars>>

ChatSpec == Init /\ [][ChatNext]_vars

(***************************************************************************)
(* Properties.                                                             *)
(***************************************************************************)
Count(type) == Cardinality({i \in DOMAIN events : events[i].type = type})

TerminalTypes == {"llm_sources", "error", "llm_response"}

Last(evs) == evs[Len(evs)]

\* C1: once an IngestJob has status completed or failed, no step changes its
\* status.  Violated: every delivery of the work item, a repeated one
\* included, starts by writing status 'processing'.
TerminalStaysTerminal ==
    [][\A j \in JobIds :
          ingestJob[j].status \in Terminal =>
              ingestJob'[j].status = ingestJob[j].status]_vars

\* C2: no exception leaves process().  Violated: a rejected update to
\* 'processing' (before the try block) or a rejected update to 'failed' in the
\* catch block leaves processUrlForIngestion, and process() rethrows it.
NoExceptionEscapes == escaped = {}

\* C3: every job that was handed to a worker eventually has status completed
\* or failed.  Violated under fair scheduling of the workers: when the update
\* to 'processing' or the update to 'failed' of the catch block is rejected,
\* the call ends and the record stays pending or processing.
DequeuedJobEndsTerminal ==
    \A j \in JobIds : (delivered[j] > 0) ~> (ingestJob[j].status \in Terminal)

\* C4 as stated: after a search with k > 0 hits and a completed generation a
\* subscribed caller has received at least one llm_chunk and exactly one
\* llm_sources, and exactly one ChatInteraction with k citations is stored.
\* Violated when the store rejects the ChatInteraction (logged only) and when
\* the generation stream ends without a fragment.
AnswerAlwaysPersisted ==
    (cpc = "done" /\ hits > 0 /\ failed # "generation" /\ subscribed) =>
        /\ Count("llm_chunk") >= 1
        /\ Count("llm_sources") = 1
        /\ Cardinality(interactions) = 1
        /\ \A c \in interactions : Len(c.citations) = hits

\* C4 amended: after a search with k > 0 hits and a completed generation the
\* creation of the ChatInteraction was attempted exactly once; it is stored
\* (once, with k citations, the whole answer and the session id) unless the
\* store rejected it, and then nothing is stored; a subscribed caller has
\* received one llm_chunk per generated fragment and then, as the last event,
\* exactly one llm_sources with the k sources.
CompletedGenerationAnswer ==
    (cpc = "done" /\ hits > 0 /\ failed # "generation") =>
        /\ storeCalls = 1
        /\ failed \in {"none", "persistence"}
        /\ failed = "none" => interactions = {ChatInteraction}
        /\ failed = "persistence" => interactions = {}
        /\ \A c \in interactions : Len(c.citations) = hits
        /\ subscribed =>
              /\ Count("llm_chunk") = frags
              /\ Count("llm_sources") = 1
              /\ Last(events) = ListEvent("llm_sources", retrievedContext)

AnswerPersistedWithCitations ==
    /\ cpc = "done" /\ subscribed /\ hits > 0 /\ frags > 0
    /\ \E c \in interactions : Len(c.citations) = hits
    /\ Last(events).type = "llm_sources"

\* C5: after a search with zero hits the call is over, the generative model
\* and the ChatInteraction creator were never called, nothing is stored, no
\* llm_chunk was sent, and a subscribed caller has received exactly
\* embedding_result, retrieved_context with an empty list and one llm_response
\* with no sources.
ZeroHitsFallback ==
    hits = 0 =>
        /\ cpc = "done"
        /\ llmCalls = 0
        /\ storeCalls = 0
        /\ interactions = {}
        /\ Count("llm_chunk") = 0
        /\ Count("llm_response") <= 1
        /\ subscribed =>
              events = <<Event("embedding_result", 0),
                         ListEvent("retrieved_context", <<>>),
                         Event("llm_response", 0)>>

ZeroHitsAnswered ==
    /\ hits = 0 /\ subscribed /\ streamEnd = "complete"
    /\ Last(events).type = "llm_response"

\* C6: every llm_chunk event comes after an embedding_result and a
\* retrieved_context event, no embedding_result or retrieved_context event
\* comes after an llm_chunk, and no terminal event precedes an llm_chunk.
FragmentsInOrder ==
    \A i \in DOMAIN events :
        events[i].type = "llm_chunk" =>
            /\ \E a \in 1..(i - 1) : events[a].type = "embedding_result"
            /\ \E b \in 1..(i - 1) : events[b].type = "retrieved_context"
            /\ \A t \in DOMAIN events :
                  events[t].type \in {"embedding_result", "retrieved_context"}
                      => t < i
            /\ \A t \in DOMAIN events :
                  events[t].type \in TerminalTypes => i < t

FragmentsThenTerminal ==
    /\ Count("llm_chunk") = MaxFrags
    /\ Last(events).type \in TerminalTypes

\* C7: a terminal event (llm_sources, error, llm_response) is the last event
\* of the stream, so there is at most one and nothing follows it; when the
\* call is over the Observable has ended and a subscribed caller has received
\* a terminal event.
OneTerminalEvent ==
    /\ \A i \in DOMAIN events :
          events[i].type \in TerminalTypes => i = Len(events)
    /\ cpc = "done" => streamEnd # "open"
    /\ (cpc = "done" /\ subscribed) =>
          /\ events # <<>>
          /\ Last(events).type \in TerminalTypes

TerminalAfterPersistenceFailure ==
    /\ cpc = "done" /\ subscribed /\ failed = "persistence"
    /\ Last(events).type = "llm_sources"

\* C8: once the caller has disconnected, the call to the generative model is
\* not started, no further fragment is read and no ChatInteraction is
\* created.  Violated: the Observable has no teardown and the chain never
\* looks at the subscription.
DisconnectAbortsRequest ==
    [][(cpc # "idle" /\ ~subscribed) =>
          /\ llmCalls' = llmCalls
          /\ frags' = frags
          /\ storeCalls' = storeCalls
          /\ interactions' = interactions]_vars

\* C9: after a failure of the generation (at its start or while fragments
\* are read) the call is over, no ChatInteraction was created or attempted,
\* no llm_sources was sent, and a subscribed caller has received exactly one
\* error event, as the last event.
GenerationFailureEndsInError ==
    failed = "generation" =>
        /\ cpc = "done"
        /\ storeCalls = 0
        /\ interactions = {}
        /\ Count("llm_sources") = 0
        /\ Count("error") <= 1
        /\ subscribed =>
              /\ Count("error") = 1
              /\ Last(events).type = "error"
              /\ Last(events).message = MsgProcess
              /\ streamEnd = "error"

MidStreamFailure ==
    /\ failed = "generation" /\ subscribed
    /\ frags > 0 /\ Count("llm_chunk") = frags
    /\ Last(events).type = "error"

\* C10: after a failure of the query embedding or of the search the call is
\* over, the failed call was made exactly once, the generative model and the
\* ChatInteraction creator were never called, nothing is stored, no
\* retrieved_context, llm_chunk, llm_sources or llm_response was sent, and a
\* subscribed caller has received exactly one error event, as the last event.
EarlyFailureEndsInError ==
    failed \in {"embedding", "search"} =>
        /\ cpc = "done"
        /\ embedCalls = 1
        /\ searchCalls = (IF failed = "search" THEN 1 ELSE 0)
        /\ llmCalls = 0
        /\ storeCalls = 0
        /\ interactions = {}
        /\ \A t \in {"retrieved_context", "llm_chunk", "llm_sources", "llm_response"} :
              Count(t) = 0
        /\ Count("error") <= 1
        /\ subscribed =>
              /\ Count("error") = 1
              /\ Last(events).type = "error"
              /\ Last(events).message =
                    (IF failed = "search" THEN MsgProcess ELSE MsgEmbedding)
              /\ streamEnd = "error"

EmbeddingFailureReported ==
    /\ failed = "embedding" /\ subscribed
    /\ Len(events) = 1
    /\ events[1].type = "error"
    /\ events[1].message = MsgEmbedding

\* C11: after a rejected creation of the ChatInteraction the call is over, the
\* Observable has completed normally, no error event was sent, and a
\* subscribed caller has received every llm_chunk and then llm_sources as
\* the last event.
PersistenceFailureInvisible ==
    failed = "persistence" =>
        /\ cpc = "done"
        /\ streamEnd = "complete"
        /\ Count("error") = 0
        /\ interactions = {}
        /\ subscribed =>
              /\ Count("llm_chunk") = frags
              /\ Last(events) = ListEvent("llm_sources", retrievedContext)

AnswerDeliveredWithoutRecord ==
    /\ failed = "persistence" /\ subscribed /\ frags = MaxFrags
    /\ Count("llm_chunk") = MaxFrags
    /\ streamEnd = "complete"

(***************************************************************************)
(* Properties of the ingestion of one job.                                 *)
(***************************************************************************)
Extractors == {"fetchPdfContent", "fetchHtmlContent"}

CallsOf(j, call) == {c \in calls : c.job = j /\ c.call = call}

\* A call of process() for job j is over and none is running.
Finished(j) == delivered[j] > 0 /\ \A w \in Workers : wk[w].job # j

Escaped(j) == \E r \in 1..delivered[j] : <<j, r>> \in escaped

ExtractionFailed(j) ==
    \E c \in calls : c.job = j /\ c.call \in Extractors /\ c.result <= 0

\* C12: when the extractor of a job returned nothing (null, an empty text) or
\* threw, no RawDoc and no DocChunk exists for the job, the chunker and the
\* embedder are not called, the record never becomes completed, and once
\* process() has returned normally the record is failed with a non-empty
\* errorMessage.  (Each work item is delivered once.)
ExtractionFailureFailsJob ==
    \A j \in JobIds :
        ExtractionFailed(j) =>
            /\ \A d \in rawDoc : d.job # j
            /\ \A c \in docChunk : c.job # j
            /\ CallsOf(j, "chunkText") = {}
            /\ CallsOf(j, "generateEmbeddings") = {}
            /\ ingestJob[j].status \in {"processing", "failed"}
            /\ (Finished(j) /\ ~Escaped(j)) =>
                  /\ ingestJob[j].status = "failed"
                  /\ ingestJob[j].errorMessage \in {MsgNoContent, ErrPage, ErrUpdate}

ExtractionFailureRecorded ==
    \E j \in JobIds :
        /\ ExtractionFailed(j) /\ Finished(j)
        /\ ingestJob[j].status = "failed"
        /\ ingestJob[j].errorMessage = MsgNoContent

\* C13: a job that failed because the chunker returned no chunk has no RawDoc.
\* Violated: the RawDoc is created after the extraction and before chunkText
\* is called.
NoRawDocWithoutChunks ==
    \A j \in JobIds :
        (ingestJob[j].status = "failed" /\ ingestJob[j].errorMessage = MsgNoChunks)
            => \A d \in rawDoc : d.job # j

\* C14: every job has at most one RawDoc, and its DocChunks belong to one
\* document.  Violated: every delivery of the work item creates a RawDoc and
\* DocChunks under fresh ids without looking for those of an earlier one.
OneDocumentPerJob ==
    \A j \in JobIds :
        /\ Cardinality({d \in rawDoc : d.job = j}) <= 1
        /\ Cardinality({c.doc : c \in {x \in docChunk : x.job = j}}) <= 1

\* The embedder of job j returned null or a number of vectors other than the
\* number of chunks.
EmbeddingFailed(j) ==
    \E e \in CallsOf(j, "generateEmbeddings") :
        \/ e.result = -1
        \/ \E k \in CallsOf(j, "chunkText") : e.result # k.result

\* C15: a job has DocChunks only if its embedder returned as many vectors as
\* the chunker returned chunks; when the embedder returned null or another
\* number of vectors the job has no DocChunk, its record never becomes
\* completed, and once process() has returned normally the record is failed
\* with a non-empty errorMessage.  (Each work item is delivered once.)
EmbeddingAllOrNothing ==
    \A j \in JobIds :
        /\ (\E c \in docChunk : c.job = j) =>
              \E e \in CallsOf(j, "generateEmbeddings"), k \in CallsOf(j, "chunkText") :
                  e.result = k.result /\ k.result > 0
        /\ EmbeddingFailed(j) =>
              /\ \A c \in docChunk : c.job # j
              /\ ingestJob[j].status \in {"processing", "failed"}
              /\ (Finished(j) /\ ~Escaped(j)) =>
                    /\ ingestJob[j].status = "failed"
                    /\ ingestJob[j].errorMessage \in {MsgEmbed, ErrUpdate}

VectorCountMismatchRecorded ==
    \E j \in JobIds :
        /\ \E e \in CallsOf(j, "generateEmbeddings") : e.result >= 0
        /\ EmbeddingFailed(j) /\ Finished(j)
        /\ ingestJob[j].status = "failed"
        /\ ingestJob[j].errorMessage = MsgEmbed

\* The URLs whose last four characters are ".pdf".
PdfUrls ==
    {u \in Urls : /\ Len(u) >= 4
                  /\ u[Len(u) - 3] = "." /\ u[Len(u) - 2] = "p"
                  /\ u[Len(u) - 1] = "d" /\ u[Len(u)] = "f"}

ExtractorCalls(j) == {c \in calls : c.job = j /\ c.call \in Extractors}

\* C16: a job calls at most one extractor, once: fetchPdfContent when its URL
\* ends in ".pdf" and fetchHtmlContent for every other URL; a job whose
\* record is completed or failed with one of the pipeline's messages has
\* called it.  (Each work item is delivered once.)
OneExtractionStrategy ==
    \A j \in JobIds :
        /\ Cardinality(ExtractorCalls(j)) <= 1
        /\ \A c \in ExtractorCalls(j) :
              c.call = (IF ingestJob[j].url \in PdfUrls THEN "fetchPdfContent"
                                                         ELSE "fetchHtmlContent")
        /\ ingestJob[j].status \in Terminal => ExtractorCalls(j) # {}

PdfExtractedAsPdf ==
    \E j \in JobIds :
        /\ ingestJob[j].url = PdfUrl
        /\ ingestJob[j].status = "completed"
        /\ CallsOf(j, "fetchPdfContent") # {}
        /\ CallsOf(j, "fetchHtmlContent") = {}

\* The job has read n characters from a PDF at PdfUrl and its call of
\* process() is over.
IngestedPdfOf(j, n) ==
    /\ ingestJob[j].url = PdfUrl
    /\ \E c \in CallsOf(j, "fetchPdfContent") : c.result = n
    /\ Finished(j)

ChunksOf(j) == {c \in docChunk : c.job = j}

\* C17 as stated: the PDF of 4500 characters ends completed, titled "a.pdf",
\* with 5 chunks (4 of 1000 characters and a remainder), each under its own
\* id with a vector.
ScenarioFiveChunks ==
    \A j \in JobIds :
        IngestedPdfOf(j, 4500) =>
            /\ ingestJob[j].status = "completed"
            /\ \A d \in rawDoc : d.job = j => d.title = <<"a", ".", "p", "d", "f">>
            /\ Cardinality(ChunksOf(j)) = 5
            /\ Cardinality({c \in ChunksOf(j) : c.text.len = 1000}) = 4
            /\ Cardinality({c.id : c \in ChunksOf(j)}) = 5

\* C17, amended: when nothing fails, the PDF of 4500 characters without
\* separators ends completed, with one document titled "a.pdf" and 6 chunks:
\* 5 of 1000 characters that start 800 characters apart and a remainder of
\* 500, each under its own id, with its own vector and the document's title.
ScenarioSixChunks ==
    \A j \in JobIds :
        IngestedPdfOf(j, 4500) =>
            /\ ingestJob[j].status = "completed"
            /\ Cardinality({d \in rawDoc : d.job = j}) = 1
            /\ \A d \in rawDoc : d.job = j => d.title = <<"a", ".", "p", "d", "f">>
            /\ Cardinality(ChunksOf(j)) = 6
            /\ {c.text : c \in ChunksOf(j)} =
                   {[from |-> 800 * i, len |-> 1000] : i \in 0..4}
                       \cup {[from |-> 4000, len |-> 500]}
            /\ Cardinality({c.id : c \in ChunksOf(j)}) = 6
            /\ Cardinality({c.vector : c \in ChunksOf(j)}) = 6
            /\ \A c \in ChunksOf(j) :
                  /\ c.title = <<"a", ".", "p", "d", "f">>
                  /\ \E d \in rawDoc : d.job = j /\ d.id = c.doc

ScenarioIngested ==
    \E j \in JobIds :
        /\ IngestedPdfOf(j, 4500)
        /\ ingestJob[j].status = "completed"
        /\ ChunksOf(j) # {}

(***************************************************************************)
(* Properties of chunkText.                                                *)
(***************************************************************************)
\* The text given to chunkText is empty or consists of whitespace.
EmptyOrWhitespace == splitIn.kind = "null" \/ StrippedLen(splitIn) = 0

\* C18 as stated: chunkText returns no chunk exactly when its text is empty
\* or whitespace-only.
NoChunksIffBlank ==
    splitPc = "returned" => (splitOut = <<>> <=> EmptyOrWhitespace)

\* C18, amended: chunkText returns no chunk exactly when its text is empty or
\* whitespace-only or the splitter threw; for every other text it returns at
\* least one chunk.
NoChunksIffBlankOrSplitterFailed ==
    splitPc = "returned" =>
        /\ splitOut = <<>> <=> (EmptyOrWhitespace \/ splitErr)
        /\ splitErr => ~EmptyOrWhitespace

SplitterFailureGivesNoChunks ==
    /\ splitPc = "returned" /\ splitErr
    /\ splitIn.kind = "solid" /\ splitIn.len > ChunkSize
    /\ splitOut = <<>>

\* The chunker of job j returned no chunk.
NoChunks(j) == \E c \in CallsOf(j, "chunkText") : c.result = 0

\* C19: chunkText never raises (every call of it returns a list); when it
\* returned the empty list, for a whitespace-only text or because the
\* splitter threw, the embedder is not called, the job has no DocChunk, its
\* record never becomes completed, and once process() has returned normally
\* the record is failed with the 'no chunks' message (or, when that update
\* was rejected, with the message of the rejection).  (Each work item is
\* delivered once.)
ChunkingNeverRaises ==
    \A j \in JobIds :
        /\ \A c \in CallsOf(j, "chunkText") : c.result >= 0
        /\ NoChunks(j) =>
              /\ CallsOf(j, "generateEmbeddings") = {}
              /\ \A c \in docChunk : c.job # j
              /\ ingestJob[j].status \in {"processing", "failed"}
              /\ (Finished(j) /\ ~Escaped(j)) =>
                    /\ ingestJob[j].status = "failed"
                    /\ ingestJob[j].errorMessage \in {MsgNoChunks, ErrUpdate}

NoChunksRecorded ==
    \E j \in JobIds :
        /\ NoChunks(j) /\ Finished(j)
        /\ ingestJob[j].status = "failed"
        /\ ingestJob[j].errorMessage = MsgNoChunks

\* The text that the chunks rebuild when each chunk is appended without the
\* characters it repeats from the end of the text rebuilt so far (the text
\* up to built): the number of its characters that are not whitespace, or -1
\* when a chunk does not continue the text rebuilt so far (it ends before
\* built, or characters other than whitespace lie between built and it).
RECURSIVE Collapse(_, _, _)
Collapse(toks, chunks, built) ==
    IF chunks = <<>> THEN NonWs(toks, 0, built)
    ELSE LET c == Head(chunks)
         IN IF c.from + c.len < built \/ NonWs(toks, built, c.from) > 0
            THEN -1
            ELSE Collapse(toks, Tail(chunks), c.from + c.len)

\* C20 as stated: the chunks chunkText returns, joined in order without the
\* repeated overlaps, are the text it was given, up to whitespace.
\* Violated: when the splitter throws, chunkText returns no chunks for a text
\* that is not empty.
ChunksRebuildText ==
    splitPc = "returned" =>
        Collapse(Toks(splitIn), splitOut, 0) = StrippedLen(splitIn)

\* C20, amended: unless the splitter threw, the chunks chunkText returns,
\* joined in order without the repeated overlaps, are the text it was given,
\* up to whitespace (every character of the text that is not whitespace is
\* there, once and in its place); when the splitter threw there are no
\* chunks.
ChunksRebuildTextUnlessSplitterFailed ==
    splitPc = "returned" =>
        IF splitErr THEN splitOut = <<>>
                    ELSE Collapse(Toks(splitIn), splitOut, 0) = StrippedLen(splitIn)

\* A text of words and separators was split into chunks of which the second
\* repeats the end of the first, whitespace of the text is in no chunk, and
\* the chunks rebuild the words of the text.
OverlappingChunksRebuilt ==
    /\ splitPc = "returned" /\ ~splitErr
    /\ splitIn.kind = "words"
    /\ Len(splitOut) >= 2
    /\ splitOut[2].from < splitOut[1].from + splitOut[1].len
    /\ NonWs(Toks(splitIn), 0, splitIn.len) < splitIn.len
    /\ \E i \in 1..(Len(splitOut) - 1) :
          splitOut[i + 1].from > splitOut[i].from + splitOut[i].len
    /\ Collapse(Toks(splitIn), splitOut, 0) = StrippedLen(splitIn)

(***************************************************************************)
(* Properties of fetchHtmlContent and the shared browser.                  *)
(***************************************************************************)
Launching == {c \in Callers : fc[c].pc = "launching"}

LaunchesInFlight == Cardinality(Launching) + (IF ib.pc = "launching" THEN 1 ELSE 0)

LiveInstances == {i \in Instances : inst[i] = "live"}

\* C21: at most one launch of the browser is in flight, and at most one
\* launched instance is connected (of two, this.browser refers to one only).
\* Violated: fetchHtmlContent tests this.browser and awaits chromium.launch()
\* without any guard, so two calls that both find no browser both launch one,
\* and the second assignment of this.browser drops the first instance.
LaunchesSerialized ==
    /\ LaunchesInFlight <= 1
    /\ Cardinality(LiveInstances) <= 1

\* C22: every page is opened on an instance that is connected at that
\* moment; a call that found this.browser absent or disconnected has begun a
\* launch (after closing the disconnected instance) before it has a page;
\* a call whose launch failed returns null without a page.
PageOnlyOnConnectedBrowser ==
    /\ \A p \in opened : p.live
    /\ \A c \in Callers :
          /\ fc[c].found = "absent" => fc[c].launched
          /\ fc[c].found = "disconnected" => (fc[c].pc = "closing" \/ fc[c].launched)
          /\ (fc[c].page # 0 /\ fc[c].found # "connected") => fc[c].launched
          /\ (fc[c].pc = "returned" /\ fc[c].page = 0) =>
                (fc[c].launched /\ fc[c].result = "null")

RelaunchedBeforePage ==
    \E c \in Callers :
        /\ fc[c].found = "disconnected" /\ fc[c].launched
        /\ fc[c].pc = "setExtraHTTPHeaders" /\ fc[c].page = browser
        /\ inst[browser] = "live"

\* C24: a call that got no article for a page that shows body text returns
\* that text.  Violated: without an article with content and title
\* fetchHtmlContent takes a screenshot and returns null; the body text is
\* never read.
BodyTextFallback ==
    \A c \in Callers :
        (fc[c].pc = "returned" /\ fc[c].kind = "bodyOnly" /\ fc[c].result # "throw")
            => fc[c].result = "article"

(***************************************************************************)
(* Properties of generateEmbeddings.                                       *)
(***************************************************************************)
\* C29: a call of generateEmbeddings with at least one chunk and without an
\* API key returns null, and at no moment from the call on has an embedding
\* client been constructed or embedDocuments been called.
MissingKeyFailsBeforeClient ==
    (genPc # "idle" /\ genIn > 0 /\ ~genKey) =>
        /\ genPc = "returned" => genOut = -1
        /\ genClients = 0
        /\ genCalls = 0

MissingKeyReturnedNull ==
    genPc = "returned" /\ genIn = MaxBatch /\ ~genKey /\ genOut = -1

(***************************************************************************)
(* Properties of the pipeline's stages.                                    *)
(***************************************************************************)
\* The extractor of job j returned a text of fewer than MinContentLength
\* characters.
ShortTextExtracted(j) ==
    \E c \in ExtractorCalls(j) : c.result >= 0 /\ c.result < MinContentLength

\* C23: a job whose extractor returned a text below the minimum length has no
\* RawDoc and no DocChunk and does not become completed.  Violated: the only
\* length test of the code logs a warning; every non-empty text is ingested.
ShortTextFailsJob ==
    \A j \in JobIds :
        ShortTextExtracted(j) =>
            /\ \A d \in rawDoc : d.job # j
            /\ \A c \in docChunk : c.job # j
            /\ ingestJob[j].status # "completed"

\* C28: every work item, waiting in the queue or handed to a worker, belongs
\* to an IngestJob record that exists; a submission whose record could not be
\* created got the error, has no record and no work item, and is never
\* processed; a submission that returned a job has its record and was queued.
RecordBeforeWorkItem ==
    \A j \in JobIds :
        /\ (j \in queue \/ delivered[j] > 0) => ingestJob[j].status # "absent"
        /\ (\E w \in Workers : wk[w].job = j) => ingestJob[j].status # "absent"
        /\ submitted[j] = "createFailed" =>
              /\ ingestJob[j].status = "absent"
              /\ j \notin queue
              /\ delivered[j] = 0
        /\ submitted[j] \in {"adding", "queued", "addFailed"} =>
              ingestJob[j].status # "absent"
        /\ j \in queue => submitted[j] = "queued"

RecordCreationFailed ==
    \E j \in JobIds :
        /\ submitted[j] = "createFailed"
        /\ ingestJob[j].status = "absent"
        /\ j \notin queue

\* The job reached the embedding stage: its RawDoc had been written.
ReachedEmbedding(j) == CallsOf(j, "generateEmbeddings") # {}

\* The embedder returned one vector per chunk, so one createObject('DocChunk')
\* per chunk was issued, and fewer DocChunks are written or still being
\* written than chunks were made: a DocChunk write has been rejected.
DocChunkWriteFailed(j) ==
    \E e \in CallsOf(j, "generateEmbeddings"), k \in CallsOf(j, "chunkText") :
        /\ k.result > 0 /\ e.result = k.result
        /\ Cardinality(ChunksOf(j))
              + Cardinality({d \in chunkWrites : d.job = j}) < k.result

\* C25: no step removes or changes a RawDoc or a DocChunk; a job that reached
\* the embedding stage keeps its RawDoc whatever fails afterwards (the
\* embedding, a DocChunk write, a status update), and once process() has
\* returned normally its record is failed when the embedding failed, failed
\* with the message of the rejected write when a DocChunk write failed, and
\* completed only when neither failed and every chunk has its DocChunk.
\* (Each work item is delivered once.)
NoRollback ==
    /\ [][rawDoc \subseteq rawDoc' /\ docChunk \subseteq docChunk']_vars
    /\ [](\A j \in JobIds :
            ReachedEmbedding(j) =>
                /\ \E d \in rawDoc : d.job = j
                /\ (Finished(j) /\ ~Escaped(j)) =>
                      /\ ingestJob[j].status \in {"completed", "failed"}
                      /\ EmbeddingFailed(j) => ingestJob[j].status = "failed"
                      /\ DocChunkWriteFailed(j) =>
                            /\ ingestJob[j].status = "failed"
                            /\ ingestJob[j].errorMessage = ErrCreate
                      /\ ingestJob[j].status = "completed" =>
                            /\ ~EmbeddingFailed(j) /\ ~DocChunkWriteFailed(j)
                            /\ \A k \in CallsOf(j, "chunkText") :
                                  Cardinality(ChunksOf(j)) = k.result
                            /\ Cardinality(ChunksOf(j)) > 0)

\* A job with two chunks has ended failed with the message of the rejected
\* DocChunk write: its RawDoc and the DocChunk that was written are in the
\* store.
PartialWritesKept ==
    \E j \in JobIds :
        /\ Finished(j)
        /\ DocChunkWriteFailed(j)
        /\ ingestJob[j].status = "failed"
        /\ ingestJob[j].errorMessage = ErrCreate
        /\ \E d \in rawDoc : d.job = j
        /\ Cardinality(ChunksOf(j)) = 1

\* The position of a stage in processUrlForIngestion.
Rank(pc) ==
    CASE pc = "markProcessing" -> 1
      [] pc = "extract" -> 2
      [] pc \in {"failNoContent", "createRawDoc"} -> 3
      [] pc = "chunk" -> 4
      [] pc \in {"failNoChunks", "embed"} -> 5
      [] pc \in {"failEmbed", "createChunks"} -> 6
      [] pc = "awaitChunks" -> 7
      [] pc = "markCompleted" -> 8
      [] pc = "catch" -> 9
      [] OTHER -> 10

Deliveries == {<<c.job, c.run>> : c \in calls}

\* C26: a call of process() only moves forward through its stages or ends,
\* so every stage (the extraction, the embedding, each store write) is
\* attempted at most once in it; within one delivery the extractor, the
\* chunker and the embedder are each called at most once; and no step of a
\* worker adds a work item to the queue: only the queue.add of a submission
\* does.
NoAutomaticRetry ==
    /\ [][/\ \A w \in Workers :
               (wk[w].pc # "idle" /\ wk'[w] # wk[w]) =>
                   \/ wk'[w].pc = "idle"
                   \/ /\ wk'[w].job = wk[w].job
                      /\ wk'[w].run = wk[w].run
                      /\ Rank(wk'[w].pc) > Rank(wk[w].pc)
          /\ ~(queue' \subseteq queue) =>
                /\ wk' = wk
                /\ \E j \in JobIds : /\ submitted[j] = "adding"
                                     /\ submitted'[j] = "queued"
                                     /\ queue' = queue \cup {j}
         ]_vars
    /\ [](\A d \in Deliveries :
            /\ Cardinality({c \in calls : <<c.job, c.run>> = d
                                          /\ c.call \in Extractors}) <= 1
            /\ Cardinality({c \in calls : <<c.job, c.run>> = d
                                          /\ c.call = "chunkText"}) <= 1
            /\ Cardinality({c \in calls : <<c.job, c.run>> = d
                                          /\ c.call = "generateEmbeddings"}) <= 1)

FailedAndNotRequeued ==
    \E j \in JobIds :
        /\ Finished(j)
        /\ ingestJob[j].status = "failed"
        /\ EmbeddingFailed(j)
        /\ j \notin queue
        /\ Cardinality(CallsOf(j, "generateEmbeddings")) = 1

\* The error events the caller has been sent.
ErrorEvents == {events[i] : i \in {k \in DOMAIN events : events[k].type = "error"}}

\* No error event carries the text of the exception that caused it.
ChatErrorsGeneric == \A e \in ErrorEvents : e.details \notin ExceptionTexts

\* The errorMessage of a failed IngestJob is one of the fixed messages.
IngestErrorsGeneric ==
    \A j \in JobIds :
        ingestJob[j].status = "failed" =>
            ingestJob[j].errorMessage \in {MsgNoContent, MsgNoChunks, MsgEmbed}

\* C27: what the user sees of a failure does not depend on the text of the
\* internal exception: an error event of a query carries none of that text,
\* and the errorMessage of a failed ingestion job is one of the fixed messages.
\* Violated: the error event has a details field holding error.message, and
\* the catch block of processUrlForIngestion stores error.message.
ErrorOutputIndependentOfException == ChatErrorsGeneric /\ IngestErrorsGeneric

\* The retrieved_context events and the llm_sources events sent so far.
ContextEvents ==
    {events[i] : i \in {k \in DOMAIN events : events[k].type = "retrieved_context"}}

SourcesEvents ==
    {events[i] : i \in {k \in DOMAIN events : events[k].type = "llm_sources"}}

\* C30: a query retrieves at most SearchLimit = 3 chunks; the retrieved_context
\* event lists them; every llm_sources event lists the same ids in the same
\* order, and it comes after the retrieved_context event; the citations of
\* every stored ChatInteraction are the beacons of the same ids in the same
\* order.
SourcesAreRetrievedContext ==
    /\ hits <= SearchLimit
    /\ \A e \in ContextEvents :
          /\ Len(e.ids) <= SearchLimit
          /\ e.ids = retrievedContext
    /\ \A e \in SourcesEvents :
          /\ e.ids = retrievedContext
          /\ subscribed => \A c \in ContextEvents : e.ids = c.ids
    /\ \A i \in DOMAIN events :
          events[i].type = "llm_sources" =>
              \E k \in 1..(i - 1) : events[k].type = "retrieved_context"
    /\ \A c \in interactions :
          /\ Len(c.citations) = Len(retrievedContext)
          /\ \A k \in DOMAIN c.citations : c.citations[k] = Beacon(retrievedContext[k])

\* Three chunks retrieved in an order that is not the order of their ids, the
\* sources sent and the ChatInteraction stored.
ThreeSourcesInSearchOrder ==
    /\ cpc = "done" /\ subscribed
    /\ retrievedContext = <<3, 1, 2>>
    /\ ContextEvents # {}
    /\ Last(events) = ListEvent("llm_sources", <<3, 1, 2>>)
    /\ \E c \in interactions : c.citations = <<Beacon(3), Beacon(1), Beacon(2)>>

\* The creation of the ChatInteraction has been issued: it is awaited, or it
\* has returned or thrown.
WriteIssued == cpc = "persisting" \/ storeCalls > 0

\* C31: in a grounded query the llm_sources event is delivered before the
\* ChatInteraction write is issued: whenever the write has been issued for a
\* caller that is still subscribed, llm_sources has been delivered already.
\* Violated: the write is awaited first and llm_sources is sent after it has
\* returned or thrown.
SourcesBeforePersistence ==
    (WriteIssued /\ subscribed) => Count("llm_sources") >= 1

\* The concatenation, in delivery order, of the contents of the llm_chunk
\* events among evs.
RECURSIVE DeliveredAnswer(_)
DeliveredAnswer(evs) ==
    IF evs = <<>> THEN <<>>
    ELSE (IF Head(evs).type = "llm_chunk" THEN Head(evs).content ELSE <<>>)
             \o DeliveredAnswer(Tail(evs))

\* C32: the answer of every stored ChatInteraction is the concatenation, in
\* delivery order, of the contents of the llm_chunk events delivered to the
\* caller, and every fragment taken from the generator has been forwarded as
\* an llm_chunk event before the next one is taken.
\* Violated: after the caller has disconnected the loop keeps reading the
\* generator and the whole answer is stored, while the later fragments were
\* never delivered.
AnswerIsDeliveredChunks ==
    /\ \A c \in interactions : c.answer = DeliveredAnswer(events)
    /\ Count("llm_chunk") = frags

\* The same for a caller that stays subscribed: the stored answer is what was
\* delivered, fragment by fragment.
AnswerIsDeliveredChunksIfSubscribed ==
    subscribed =>
        /\ \A c \in interactions : c.answer = DeliveredAnswer(events)
        /\ Count("llm_chunk") = frags
        /\ fullResponse = DeliveredAnswer(events)

\* The store calls of the startIngestion call that write status FAILED.
FailedUpdates == {k \in DOMAIN siCalls : siCalls[k].status = "FAILED"}

\* The statuses the stored record has had, in order.
StatusesOf(rec) == [k \in DOMAIN rec |-> rec[k].status]

\* C33 as stated: startIngestion has not thrown; once it has returned, the
\* result is the generated jobId; without an error the record went QUEUED,
\* PROCESSING, COMPLETED; after a rejected store call exactly one update to
\* FAILED was issued and it carries the message of the error.
\* Violated by an error whose message is empty: the update carries
\* 'Unknown error during ingestion'.
FailedUpdateCarriesErrorMessage ==
    /\ siResult # "thrown"
    /\ siPc = "returned" =>
          /\ siResult = siJobId
          /\ siError = NoError =>
                StatusesOf(siRecord) = <<"QUEUED", "PROCESSING", "COMPLETED">>
          /\ (siError # NoError /\ siClient) =>
                /\ Cardinality(FailedUpdates) = 1
                /\ \A k \in FailedUpdates : siCalls[k].errorMessage = siError

\* C33 amended: startIngestion has not thrown and at most one update to FAILED
\* was issued; once it has returned, the result is the generated jobId;
\* without an error the record went QUEUED, PROCESSING, COMPLETED and no update
\* to FAILED was issued; after a rejected store call exactly one update to
\* FAILED was issued, as the last call, and it carries the message of the
\* error, or 'Unknown error during ingestion' when that message is empty;
\* when the client is not initialized no store call was issued at all;
\* whether the update to FAILED succeeded or not makes no difference to the
\* result.
StartIngestionOutcome ==
    /\ siResult # "thrown"
    /\ Cardinality(FailedUpdates) <= 1
    /\ siPc = "returned" =>
          /\ siResult = siJobId
          /\ siError = NoError =>
                /\ StatusesOf(siRecord) = <<"QUEUED", "PROCESSING", "COMPLETED">>
                /\ FailedUpdates = {}
          /\ (siError # NoError /\ siClient) =>
                /\ FailedUpdates = {Len(siCalls)}
                /\ siCalls[Len(siCalls)].errorMessage =
                      (IF siError = "" THEN MsgUnknown ELSE siError)
                /\ siCalls[Len(siCalls)].completedAt
                /\ \A k \in DOMAIN siRecord : siRecord[k].status # "COMPLETED"
          /\ ~siClient => siCalls = <<>> /\ siRecord = <<>>

\* The update to PROCESSING was rejected with an empty message, the update to
\* FAILED was rejected too, and the call has returned the jobId.
FailedUpdateSwallowed ==
    /\ siPc = "returned"
    /\ siResult = siJobId
    /\ siError = ""
    /\ StatusesOf(siRecord) = <<"QUEUED">>
    /\ Len(siCalls) = 3
    /\ siCalls[3].status = "FAILED"

\* C34: every settled call of process() rejected with the very error
\* processUrlForIngestion rejected with, resolved if processUrlForIngestion
\* resolved, and for a job not named 'ingestUrl' resolved without invoking
\* processUrlForIngestion; processUrlForIngestion was invoked exactly once
\* for each job named 'ingestUrl', with that job.
ProcessMirrorsService ==
    /\ \A k \in DOMAIN prLog :
          /\ prLog[k].invoked = (prLog[k].job.name = "ingestUrl")
          /\ prLog[k].service = "rejected" =>
                /\ prLog[k].outcome = "rejected"
                /\ prLog[k].error = prLog[k].thrown
          /\ prLog[k].service = "resolved" => prLog[k].outcome = "resolved"
          /\ prLog[k].job.name # "ingestUrl" =>
                /\ prLog[k].outcome = "resolved"
                /\ prLog[k].service = "none"
    /\ Len(prInvoked) =
          Cardinality({k \in DOMAIN prLog : prLog[k].job.name = "ingestUrl"})
              + (IF prPc = "awaiting" THEN 1 ELSE 0)
    /\ \A k \in DOMAIN prInvoked : prInvoked[k].name = "ingestUrl"

\* A job with an unexpected name was skipped and then a job named 'ingestUrl'
\* failed with the error of processUrlForIngestion.
SkippedThenRejected ==
    /\ Len(prLog) = 2
    /\ prLog[1].job.name = "otherJobType" /\ prLog[1].outcome = "resolved"
    /\ prLog[2].job.name = "ingestUrl" /\ prLog[2].outcome = "rejected"
    /\ prLog[2].error = "Processing failed"
    /\ Len(prInvoked) = 1

\* C35: in every state of every IngestJob record, status failed comes with a
\* non-empty errorMessage and a completedAt, status completed with a cleared
\* errorMessage and a completedAt, and status pending or processing with no
\* completedAt.
\* Violated: a repeated delivery of a job that has ended writes status
\* 'processing' and leaves completedAt (and errorMessage) as they were.
JobRecordWellFormed ==
    \A j \in JobIds :
        /\ ingestJob[j].status = "failed" =>
              /\ ingestJob[j].errorMessage # NoMessage
              /\ ingestJob[j].completedAt
        /\ ingestJob[j].status = "completed" =>
              /\ ingestJob[j].errorMessage = NoMessage
              /\ ingestJob[j].completedAt
        /\ ingestJob[j].status \in {"pending", "processing"} =>
              ~ingestJob[j].completedAt

\* The numbers of chunks the chunker returned for job j.
ChunkCountsOf(j) == {c.result : c \in CallsOf(j, "chunkText")}

\* Job j has one DocChunk for each of the n chunks, the one at position i with
\* the vector returned at position i.
OneDocChunkPerChunk(j, n) ==
    /\ Cardinality(ChunksOf(j)) = n
    /\ \A i \in 1..n :
          \E d \in ChunksOf(j) : d.index = i /\ d.vector = i

\* C36: a job becomes completed only in a state in which every DocChunk write
\* of the job has been acknowledged, and while a job is completed the store
\* holds exactly one DocChunk per chunk the chunker produced for it, the one
\* with the text at split position i carrying the vector returned at position
\* i.  (Each work item is delivered once.)
CompletedAfterAllChunks ==
    /\ [][\A j \in JobIds :
            (ingestJob[j].status # "completed" /\ ingestJob'[j].status = "completed") =>
                /\ \A d \in chunkWrites : d.job # j
                /\ \E n \in ChunkCountsOf(j) : n > 0 /\ OneDocChunkPerChunk(j, n)]_vars
    /\ [](\A j \in JobIds :
            ingestJob[j].status = "completed" =>
                /\ Cardinality(ChunkCountsOf(j)) = 1
                /\ \A n \in ChunkCountsOf(j) : n > 0 /\ OneDocChunkPerChunk(j, n))

\* A job is completed with MaxChunks chunks, each stored with its own vector.
CompletedWithAllChunks ==
    \E j \in JobIds :
        /\ ingestJob[j].status = "completed"
        /\ MaxChunks \in ChunkCountsOf(j)
        /\ Cardinality(ChunksOf(j)) = MaxChunks
        /\ \A d \in ChunksOf(j) : d.vector = d.index

\* The ids under which the DocChunk objects of job j were created.
CreatedChunkIds(j) == {d.id : d \in ChunksOf(j)}

\* The ids recorded as docChunkIds on the record of job j, without the
\* 'DocChunk/' prefix.
RecordedIdsOf(j) ==
    {ingestJob[j].docChunkIds[i][2] : i \in DOMAIN ingestJob[j].docChunkIds}

\* C37: the docChunkIds of a completed IngestJob are exactly the ids under
\* which the job's DocChunk objects were created, and its rawDocId is the id
\* of the job's RawDoc.
\* Violated: docChunkIds holds one newly drawn uuid per chunk, none of which
\* is the id of a DocChunk.
RecordedIdsAreCreatedIds ==
    \A j \in JobIds :
        ingestJob[j].status = "completed" =>
            /\ RecordedIdsOf(j) = CreatedChunkIds(j)
            /\ \E d \in rawDoc : d.job = j /\ d.id = ingestJob[j].rawDocId

\* The part of C37 about the RawDoc: the rawDocId of a completed IngestJob is
\* the id of a RawDoc of that job.
RecordedRawDocIsCreated ==
    \A j \in JobIds :
        ingestJob[j].status = "completed" =>
            \E d \in rawDoc : d.job = j /\ d.id = ingestJob[j].rawDocId

\* C38: every IngestJob record in status pending whose work item has not been
\* delivered yet has its work item in the queue: no submission leaves a
\* pending record that no worker will ever process.
\* (A submission that still awaits queue.add is not counted.)
\* Violated: when the queue rejects the work item after the record was
\* created, addUrlToQueue rethrows and the pending record stays as it is.
PendingHasWorkItem ==
    \A j \in JobIds :
        (/\ ingestJob[j].status = "pending"
         /\ delivered[j] = 0
         /\ submitted[j] # "adding") => j \in queue

\* The calls of fetchHtmlContent in flight.
InFlight == {c \in Callers : ~Free(c)}

\* The calls of fetchHtmlContent that hold a page: between the newPage that
\* resolved and the end of page.close().
HoldsPage(c) ==
    fc[c].pc \in {"setExtraHTTPHeaders", "goto", "content", "extract",
                  "screenshot", "closePage"}

\* C39 as stated: every page a call of fetchHtmlContent has opened is closed
\* before the call returns, whatever the page gave (an article, no article,
\* an exception such as a navigation timeout): the open pages are pages of
\* calls in flight, at most one for each, and there is none when no call is
\* in flight.
\* Violated: when page.close() rejects in the finally block the page stays
\* open and the rejection leaves fetchHtmlContent.
PagesClosedOnReturn ==
    /\ \A p \in pagesOpen : \E c \in InFlight : fc[c].id = p.id
    /\ Cardinality(pagesOpen) <= Cardinality(InFlight)
    /\ InFlight = {} => pagesOpen = {}
    /\ \A c \in Callers :
          (fc[c].pc = "returned" /\ fc[c].kind # "none") =>
              \A p \in pagesOpen : p.id # fc[c].id

\* C39, amended: on every path fetchHtmlContent awaits page.close() for the
\* page it opened before it returns, and the page is closed unless that
\* close() rejects.  An open page is the page of a call in flight that has
\* not ended its close() yet, or a page whose close() was rejected; a call
\* that returned a value (an article or null) has left no page open, and a
\* page whose close() was rejected belongs to a call that threw; without a
\* rejected close() no page is open when no call is in flight.
PagesClosedUnlessCloseRejected ==
    /\ \A p \in pagesOpen :
          \/ p.closeFailed
          \/ \E c \in InFlight : fc[c].id = p.id /\ HoldsPage(c)
    /\ \A c \in Callers :
          /\ (fc[c].pc = "returned" /\ fc[c].result # "throw") =>
                \A p \in pagesOpen : p.id # fc[c].id
          /\ fc[c].pc = "returned" =>
                \A p \in pagesOpen : p.id = fc[c].id => p.closeFailed
          /\ ~Free(c) =>
                \A p \in pagesOpen : p.id = fc[c].id => ~p.closeFailed
    /\ Cardinality({p \in pagesOpen : ~p.closeFailed}) <= Cardinality(InFlight)
    /\ (InFlight = {} /\ \A p \in pagesOpen : ~p.closeFailed) => pagesOpen = {}

\* Two calls have had their pages at the same time, one of them ran into an
\* exception and the other got no article, both have taken their screenshot
\* and have returned null: no page is open.
AllPagesClosed ==
    /\ \A c \in Callers : fc[c].pc = "returned" /\ fc[c].result = "null"
    /\ \E c \in Callers : fc[c].kind = "error" /\ fc[c].page # 0
    /\ \E c \in Callers : fc[c].kind = "bodyOnly"
    /\ \A c, d \in Callers : fc[c].page = fc[d].page /\ inst[fc[c].page] = "live"
    /\ Cardinality(opened) >= 1
    /\ pagesOpen = {}

(***************************************************************************)
(* C40.  chatWithBot does not depend on how the response body is split     *)
(* into reads: for every split of a well-formed event stream it makes the  *)
(* onChunk calls and returns the result that it makes and returns when    *)
(* the whole body arrives in one read.  When an error event is read the   *)
(* result is the failure with that event's message, or with 'An error      *)
(* occurred during chat.' when the message is empty, and nothing after the *)
(* event is handled.  The content of a successful result is the content of *)
(* the last llm_response event followed by the llm_chunk contents          *)
(* forwarded after it; it is the concatenation of all forwarded llm_chunk  *)
(* contents only when the stream has no llm_response event.                *)
(***************************************************************************)
\* What the call does when the whole body arrives in one read.
ReadAll(stream) ==
    LET st == HandleLines(Locals(<<>>, <<>>, <<>>, <<>>, FALSE, NoResponse),
                          Split(stream), 1)
    IN  IF st.returned THEN st
        ELSE [st EXCEPT !.returned = TRUE,
                        !.response = ChatResponse(TRUE, st.content, st.citations,
                                                  "none")]

RECURSIVE Concat(_)
Concat(ss) == IF ss = <<>> THEN <<>> ELSE Head(ss) \o Concat(Tail(ss))

\* The content after the events ps: an llm_response replaces it, an llm_chunk
\* extends it.
RECURSIVE ContentAfter(_)
ContentAfter(ps) ==
    IF ps = <<>> THEN <<>>
    ELSE LET e == EventData(ps[Len(ps)])
             front == ContentAfter(SubSeq(ps, 1, Len(ps) - 1))
         IN  IF e.type = "llm_response" THEN e.content
             ELSE IF e.type = "llm_chunk" THEN front \o e.content
             ELSE front

ReaderIndependentOfSplit ==
    (botPc = "returned" /\ ~readFailed /\ chatResponse.error # MsgNoStream) =>
        LET ref == ReadAll(sseStream)
        IN  /\ onChunkCalls = ref.calls
            /\ chatResponse = ref.response
            /\ chatResponse.success =>
                   /\ chatResponse.content = ContentAfter(handled)
                   /\ \A k \in DOMAIN handled : handled[k] \notin ErrorPayloads
                   /\ StreamOf(handled) = sseStream
            /\ ~chatResponse.success =>
                   /\ handled # <<>>
                   /\ handled[Len(handled)] \in ErrorPayloads
                   /\ \A k \in 1..(Len(handled) - 1) : handled[k] \notin ErrorPayloads
                   /\ chatResponse.error =
                          LET m == EventData(handled[Len(handled)]).message
                          IN  IF m = "" THEN MsgStreamError ELSE m
                   /\ StreamOf(handled) =
                          SubSeq(sseStream, 1, 5 * Len(handled))

\* A body with an llm_response and a chunk after it, delivered with a read
\* ending inside a line, has been read to the end.
SplitStreamWithResponseRead ==
    /\ botPc = "returned"
    /\ chatResponse.success
    /\ splitInLine
    /\ handled = <<"R", "B">>
    /\ onChunkCalls = <<<<"b", "c">>>>
    /\ chatResponse.content = <<"r", "b", "c">>

\* C40 as stated: the content of a successful result is the concatenation of
\* the forwarded llm_chunk contents.
ContentIsForwardedChunks ==
    (botPc = "returned" /\ chatResponse.success) =>
        chatResponse.content = Concat(onChunkCalls)

====
